---- MODULE Spec2Model ----
\* Model of the vacomplex topological complex (vgc::vacomplex::Complex) and of
\* its operations engine (vgc::vacomplex::detail::Operations).
\*
\* A complex is a map Id -> Node.  Every operation of the engine is a pure
\* operator on a context record c = [nodes, nextId, created, destroyed,
\* modified, tmp]; an action applies one public operation atomically, wrapped
\* in the constructor and destructor of the Operations scope it runs in.

EXTENDS Integers, Sequences, FiniteSets, TLC

\* ------------------------------------------------------------------ bounds

MaxId == 14         \* ids handed out by core::genId() are capped at MaxId
MaxVersion == 5     \* Complex::version_ is capped at MaxVersion
MaxDepth == 2       \* nesting depth of ScopedOperationsGroup objects
MaxCycleLen == 2    \* length of the cycles handed to createKeyFace
MaxPending == 2     \* node events a scope in progress records before it ends

NULL == 0

VARIABLES
    nodes,                      \* Complex::nodes_ : Id -> Node
    root,                       \* Complex::root_
    nextId,                     \* next value of core::genId()
    version,                    \* Complex::version_
    numOperationsInProgress,    \* Complex::numOperationsInProgress_
    opDiff,                     \* Complex::opDiff_
    temporaryCellSet,           \* Complex::temporaryCellSet_
    numEmitted,                 \* number of nodesChanged().emit() calls so far
    last,                       \* the operation that ran last, with its pre-state
    prev                        \* the operation that ran before it

vars == <<nodes, root, nextId, version, numOperationsInProgress, opDiff,
          temporaryCellSet, numEmitted, last, prev>>

\* ------------------------------------------------------- array primitives

Contains(s, x) == \E i \in 1..Len(s) : s[i] = x

IndexOf(s, x) == IF Contains(s, x) THEN CHOOSE i \in 1..Len(s) : s[i] = x /\ \A j \in 1..(i - 1) : s[j] # x ELSE 0

RemoveAt(s, i) == SubSeq(s, 1, i - 1) \o SubSeq(s, i + 1, Len(s))

RemoveOne(s, x) == IF Contains(s, x) THEN RemoveAt(s, IndexOf(s, x)) ELSE s

InsertAt(s, i, x) == SubSeq(s, 1, i - 1) \o <<x>> \o SubSeq(s, i, Len(s))

Range(s) == {s[i] : i \in 1..Len(s)}

Reverse(s) == [i \in 1..Len(s) |-> s[Len(s) + 1 - i]]

RECURSIVE SetToSeq(_)
SetToSeq(S) == IF S = {} THEN <<>> ELSE LET x == CHOOSE y \in S : \A z \in S : y <= z IN <<x>> \o SetToSeq(S \ {x})

\* ------------------------------------------------------------ node records

GroupKind == "Group"
KeyVertexKind == "KeyVertex"
KeyEdgeKind == "KeyEdge"
KeyFaceKind == "KeyFace"
InbetweenVertexKind == "InbetweenVertex"
InbetweenEdgeKind == "InbetweenEdge"
InbetweenFaceKind == "InbetweenFace"

NewNode(kind, parent) ==
    [kind |-> kind, parent |-> parent, children |-> <<>>,
     boundary |-> <<>>, star |-> <<>>,
     startVertex |-> NULL, endVertex |-> NULL, cycles |-> <<>>]

IsCell(n) == n.kind # GroupKind

IsGroup(n) == n.kind = GroupKind

\* Variant of cellType that ranks the cell types in the opposite order.
cellTypeReversed(kind) ==
    CASE kind = KeyVertexKind -> 6
      [] kind = KeyEdgeKind -> 5
      [] kind = KeyFaceKind -> 4
      [] kind = InbetweenVertexKind -> 2
      [] kind = InbetweenEdgeKind -> 1
      [] kind = InbetweenFaceKind -> 0

\* Cell::cellType as an integer: the CellType enumerators in the order
\* KeyVertex, KeyEdge, KeyFace, InbetweenVertex, InbetweenEdge, InbetweenFace
\* (the inbetween types carry the temporal bit).
cellType(kind) ==
    CASE kind = KeyVertexKind -> 0
      [] kind = KeyEdgeKind -> 1
      [] kind = KeyFaceKind -> 2
      [] kind = InbetweenVertexKind -> 4
      [] kind = InbetweenEdgeKind -> 5
      [] kind = InbetweenFaceKind -> 6

\* ------------------------------------------------------------ halfedges

Halfedge(e, d) == [edge |-> e, direction |-> d]

Opposite(h) == [edge |-> h.edge, direction |-> ~h.direction]

HStart(ns, h) == IF h.direction THEN ns[h.edge].startVertex ELSE ns[h.edge].endVertex

HEnd(ns, h) == IF h.direction THEN ns[h.edge].endVertex ELSE ns[h.edge].startVertex

EdgeIsClosed(ns, e) == ns[e].startVertex = NULL

IsStartVertex(ns, e, v) == ns[e].startVertex = v

IsEndVertex(ns, e, v) == ns[e].endVertex = v

\* ------------------------------------------------------- paths and cycles

\* KeyPath: either a single vertex or a chain of halfedges.
PathOfVertex(v) == [singleVertex |-> v, halfedges |-> <<>>]

PathOfHalfedges(hs) == [singleVertex |-> NULL, halfedges |-> hs]

PathAppend(p, h) == [singleVertex |-> NULL, halfedges |-> Append(p.halfedges, h)]

PathExtend(p, q) == IF q.halfedges = <<>> THEN p ELSE [singleVertex |-> NULL, halfedges |-> p.halfedges \o q.halfedges]

ReversedHalfedges(hs) == [i \in 1..Len(hs) |-> Opposite(hs[Len(hs) + 1 - i])]

PathReverse(p) == [singleVertex |-> p.singleVertex, halfedges |-> ReversedHalfedges(p.halfedges)]

PathExtendReversed(p, q) == PathExtend(p, PathReverse(q))

PathIsSingleVertex(p) == p.singleVertex # NULL

\* KeyCycle: a Steiner vertex or a closed walk of halfedges.
SteinerCycle(v) == [steinerVertex |-> v, halfedges |-> <<>>]

CycleOfHalfedges(hs) == [steinerVertex |-> NULL, halfedges |-> hs]

CycleOfPath(p) == IF p.halfedges = <<>> THEN SteinerCycle(p.singleVertex) ELSE CycleOfHalfedges(p.halfedges)

CycleReversed(cy) == [steinerVertex |-> cy.steinerVertex, halfedges |-> ReversedHalfedges(cy.halfedges)]

CycleIsValid(ns, cy) ==
    IF cy.steinerVertex # NULL THEN cy.halfedges = <<>>
    ELSE IF cy.halfedges = <<>> THEN FALSE
    ELSE IF EdgeIsClosed(ns, cy.halfedges[1].edge)
         THEN \A i \in 1..Len(cy.halfedges) : cy.halfedges[i] = cy.halfedges[1]
    ELSE LET hs == cy.halfedges
             n == Len(hs)
         IN  /\ \A i \in 1..n : ~EdgeIsClosed(ns, hs[i].edge)
             /\ \A i \in 1..n : HEnd(ns, hs[i]) = HStart(ns, hs[(i % n) + 1])

\* ------------------------------------------------------------ ComplexDiff

BoundaryChanged == "BoundaryChanged"
BoundaryGeometryChanged == "BoundaryGeometryChanged"
StarChanged == "StarChanged"
ChildrenChanged == "ChildrenChanged"
GeometryChanged == "GeometryChanged"

EmptyDiff == [created |-> {}, destroyed |-> <<>>, inserted |-> {}, modified |-> {}]

Ctx(ns, nid, diff, tmp) ==
    [nodes |-> ns, nextId |-> nid, created |-> diff.created, destroyed |-> diff.destroyed,
     inserted |-> diff.inserted, modified |-> diff.modified, tmp |-> tmp]

\* Evaluates the context c before the expression e that continues from it.
Then(c, e) == IF c.nextId > 0 THEN e ELSE c

DiffOf(c) == [created |-> c.created, destroyed |-> c.destroyed, inserted |-> c.inserted, modified |-> c.modified]

onNodeCreated_(c, id) == [c EXCEPT !.created = @ \cup {id}]

onNodeDestroyed_(c, id) == [c EXCEPT !.destroyed = Append(@, id)]

onNodeInserted_(c, id) == [c EXCEPT !.inserted = @ \cup {id}]

onNodeModified_(c, id, flags) == [c EXCEPT !.modified = @ \cup {<<id, f>> : f \in flags}]

\* ------------------------------------------------- boundary / star index

onBoundaryChanged_(c, boundedCell, boundingCell) ==
    onNodeModified_(onNodeModified_(c, boundedCell, {BoundaryChanged, BoundaryGeometryChanged}),
                    boundingCell, {StarChanged})

\* Variant that does not record the bounded cell in the star of the bounding cell.
addToBoundaryWithoutStar_(c, boundedCell, boundingCell) ==
    IF ~Contains(c.nodes[boundedCell].boundary, boundingCell)
    THEN [c EXCEPT !.nodes = [@ EXCEPT ![boundedCell].boundary = Append(@, boundingCell)]]
    ELSE c

\* Variant that rejects every pair of arguments.
checkAddToBoundaryArgsRejectingAll_(boundedCell, boundingCell) == TRUE

\* Variant of removeFromBoundary_ that forgets the star of the bounding cell.
removeFromBoundaryKeepingStar_(c, boundedCell, boundingCell) ==
    IF Contains(c.nodes[boundedCell].boundary, boundingCell)
    THEN [c EXCEPT !.nodes = [@ EXCEPT ![boundedCell].boundary = RemoveOne(@, boundingCell)]]
    ELSE c

\* checkAddToBoundaryArgs_ : TRUE when the arguments are rejected (a
\* LogicError is thrown before anything is touched).
checkAddToBoundaryArgs_(boundedCell, boundingCell) == boundingCell = NULL \/ boundedCell = NULL

addToBoundary_(c, boundedCell, boundingCell) ==
    IF ~Contains(c.nodes[boundedCell].boundary, boundingCell)
    THEN onBoundaryChanged_(
            [c EXCEPT !.nodes = [@ EXCEPT ![boundedCell].boundary = Append(@, boundingCell),
                                          ![boundingCell].star = Append(@, boundedCell)]],
            boundedCell, boundingCell)
    ELSE c

removeFromBoundary_(c, boundedCell, boundingCell) ==
    IF Contains(c.nodes[boundedCell].boundary, boundingCell)
    THEN onBoundaryChanged_(
            [c EXCEPT !.nodes = [@ EXCEPT ![boundedCell].boundary = RemoveOne(@, boundingCell),
                                          ![boundingCell].star = RemoveOne(@, boundedCell)]],
            boundedCell, boundingCell)
    ELSE c

RECURSIVE AddSeqToBoundary(_, _, _)
AddSeqToBoundary(c, boundedCell, cells) ==
    IF cells = <<>> THEN c
    ELSE AddSeqToBoundary(addToBoundary_(c, boundedCell, Head(cells)), boundedCell, Tail(cells))

RECURSIVE RemoveSeqFromBoundary(_, _, _)
RemoveSeqFromBoundary(c, boundedCell, cells) ==
    IF cells = <<>> THEN c
    ELSE RemoveSeqFromBoundary(removeFromBoundary_(c, boundedCell, Head(cells)), boundedCell, Tail(cells))

\* The cells a cycle references, in the order addToBoundary_(face, cycle) adds them.
CycleCells(ns, cy) ==
    IF cy.steinerVertex # NULL THEN <<cy.steinerVertex>>
    ELSE IF EdgeIsClosed(ns, cy.halfedges[1].edge) THEN <<cy.halfedges[1].edge>>
    ELSE [i \in 1..(2 * Len(cy.halfedges)) |->
            IF i % 2 = 1 THEN cy.halfedges[(i + 1) \div 2].edge
            ELSE HEnd(ns, cy.halfedges[i \div 2])]

\* Variant that adds the edges of the cycle but not their end vertices.
addCycleEdgesToBoundary_(c, face, cy) ==
    AddSeqToBoundary(c, face,
        IF cy.steinerVertex # NULL THEN <<cy.steinerVertex>>
        ELSE [i \in 1..Len(cy.halfedges) |-> cy.halfedges[i].edge])

addCycleToBoundary_(c, face, cy) == AddSeqToBoundary(c, face, CycleCells(c.nodes, cy))

\* ------------------------------------------------------------ node tree

\* Group::insertChildUnchecked / appendChild: unlink from the old parent, link
\* before nextSibling (or last).
InsertChild(ns, parentGroup, nextSibling, node) ==
    LET old == ns[node].parent
        ns1 == IF old = NULL THEN ns ELSE [ns EXCEPT ![old].children = RemoveOne(@, node)]
        ch == ns1[parentGroup].children
        pos == IF nextSibling = NULL THEN Len(ch) + 1 ELSE IndexOf(ch, nextSibling)
    IN  [ns1 EXCEPT ![parentGroup].children = InsertAt(ch, pos, node), ![node].parent = parentGroup]

insertNodeBeforeSibling_(c, node, nextSibling) ==
    onNodeInserted_([c EXCEPT !.nodes = InsertChild(@, c.nodes[nextSibling].parent, nextSibling, node)], node)

insertNodeAsLastChild_(c, node, parentGroup) ==
    onNodeInserted_([c EXCEPT !.nodes = InsertChild(@, parentGroup, NULL, node)], node)

moveToGroup(c, node, parentGroup, nextSibling) ==
    IF nextSibling # NULL THEN insertNodeBeforeSibling_(c, node, nextSibling)
    ELSE insertNodeAsLastChild_(c, node, parentGroup)

NextSibling(ns, node) ==
    LET p == ns[node].parent
    IN  IF p = NULL THEN NULL
        ELSE LET ch == ns[p].children
                 i == IndexOf(ch, node)
             IN  IF i < Len(ch) THEN ch[i + 1] ELSE NULL

\* createNode_<T>: a fresh node with a fresh id, registered in nodes_.
createNode_(c, kind) ==
    onNodeCreated_([c EXCEPT !.nodes = (c.nextId :> NewNode(kind, NULL)) @@ @,
                             !.nextId = @ + 1], c.nextId)

\* createNodeAt_<T>: the id of the created node is c.nextId.
createNodeAt_(c, kind, parentGroup, nextSibling) ==
    moveToGroup(createNode_(c, kind), c.nextId, parentGroup, nextSibling)

RECURSIVE Descendants(_, _)
Descendants(ns, node) ==
    LET ch == Range(ns[node].children)
    IN  ch \cup UNION {Descendants(ns, k) : k \in ch}

\* findTopMost / findBottomMost look under the parent of nodes[1] only.
findTopMost(ns, nodeSeq) ==
    LET ch == ns[ns[nodeSeq[1]].parent].children
        hits == {i \in 1..Len(ch) : Contains(nodeSeq, ch[i])}
    IN  ch[CHOOSE i \in hits : \A j \in hits : j <= i]

findBottomMost(ns, nodeSeq) ==
    LET ch == ns[ns[nodeSeq[1]].parent].children
        hits == {i \in 1..Len(ch) : Contains(nodeSeq, ch[i])}
    IN  ch[CHOOSE i \in hits : \A j \in hits : i <= j]

\* ------------------------------------------------------------ creation

createRootGroup(c) == createNode_(c, GroupKind)

createGroup(c, parentGroup, nextSibling) == createNodeAt_(c, GroupKind, parentGroup, nextSibling)

createKeyVertex(c, parentGroup, nextSibling) == createNodeAt_(c, KeyVertexKind, parentGroup, nextSibling)

\* Variant that adds only the start vertex to the boundary of the edge.
SetEdgeVerticesStartOnly(c, ke, startVertex, endVertex) ==
    addToBoundary_(
        [c EXCEPT !.nodes = [@ EXCEPT ![ke].startVertex = startVertex, ![ke].endVertex = endVertex]],
        ke, startVertex)

SetEdgeVertices(c, ke, startVertex, endVertex) ==
    addToBoundary_(addToBoundary_(
        [c EXCEPT !.nodes = [@ EXCEPT ![ke].startVertex = startVertex, ![ke].endVertex = endVertex]],
        ke, startVertex), ke, endVertex)

createKeyOpenEdge(c, startVertex, endVertex, parentGroup, nextSibling) ==
    SetEdgeVertices(createNodeAt_(c, KeyEdgeKind, parentGroup, nextSibling), c.nextId, startVertex, endVertex)

createKeyClosedEdge(c, parentGroup, nextSibling) == createNodeAt_(c, KeyEdgeKind, parentGroup, nextSibling)

RECURSIVE AddCyclesToBoundary(_, _, _)
AddCyclesToBoundary(c, face, cycles) ==
    IF cycles = <<>> THEN c
    ELSE AddCyclesToBoundary(addCycleToBoundary_(c, face, Head(cycles)), face, Tail(cycles))

SetFaceCycles(c, kf, cycles) ==
    AddCyclesToBoundary([c EXCEPT !.nodes = [@ EXCEPT ![kf].cycles = cycles]], kf, cycles)

createKeyFace(c, cycles, parentGroup, nextSibling) ==
    SetFaceCycles(createNodeAt_(c, KeyFaceKind, parentGroup, nextSibling), c.nextId, cycles)

\* Variant that adds the cycle to the boundary of the face only.
addCycleToFaceBoundaryOnly(c, kf, cy) == addCycleToBoundary_(c, kf, cy)

addCycleToFace(c, kf, cy) ==
    addCycleToBoundary_([c EXCEPT !.nodes = [@ EXCEPT ![kf].cycles = Append(@, cy)]], kf, cy)

\* ------------------------------------------------------------ deletion

RECURSIVE Call(_, _)

\* The index-ordered subsequence of s at the positions in keep.
SubSeqAt(s, keep) == LET F[i \in 0..Len(s)] == IF i = 0 THEN <<>> ELSE IF i \in keep THEN Append(F[i - 1], s[i]) ELSE F[i - 1] IN F[Len(s)]

\* One cycle of a star face after removing the halfedges of doomed edges
\* (struct RepairedCycle in delete_).
RepairedCycle(ns, cy, flagged) ==
    IF cy.steinerVertex # NULL
    THEN [keep |-> cy.steinerVertex \notin flagged, cycle |-> cy, isUnchanged |-> TRUE]
    ELSE LET tmp == CycleOfHalfedges(SubSeqAt(cy.halfedges, {i \in 1..Len(cy.halfedges) : cy.halfedges[i].edge \notin flagged}))
             isUnchanged == tmp.halfedges = cy.halfedges
         IN  [keep |-> isUnchanged \/ CycleIsValid(ns, tmp), cycle |-> tmp, isUnchanged |-> isUnchanged]

\* The indices of the cycles of kf that survive the repair.  The containment
\* tests are geometric: drop is the set of <<face, cycle index>> whose test
\* says "contained in a deleted cycle"; a test can only fail against an
\* original cycle that was changed or removed.
RepairedIndices(ns, kf, flagged, drop) ==
    LET cycles == ns[kf].cycles
        rep(i) == RepairedCycle(ns, cycles[i], flagged)
        hasReason == \E i \in 1..Len(cycles) : cycles[i].steinerVertex = NULL /\ ~(rep(i).keep /\ rep(i).isUnchanged)
    IN  {i \in 1..Len(cycles) : rep(i).keep /\ ~(hasReason /\ <<kf, i>> \in drop)}

RepairedCycles(ns, kf, flagged, kept) ==
    [k \in 1..Len(kept) |-> RepairedCycle(ns, ns[kf].cycles[kept[k]], flagged).cycle]

RepairFaceWith(c, kf, newCycles) ==
    AddCyclesToBoundary(
        [RemoveSeqFromBoundary(c, kf, c.nodes[kf].boundary) EXCEPT !.nodes = [@ EXCEPT ![kf].cycles = newCycles]],
        kf, newCycles)

RepairFace(c, kf, flagged, drop) ==
    RepairFaceWith(c, kf, RepairedCycles(c.nodes, kf, flagged, SetToSeq(RepairedIndices(c.nodes, kf, flagged, drop))))

RepairFaces(c, faces, flagged, drop) ==
    IF faces = <<>> THEN c
    ELSE Call("RepairFaces", <<Call("RepairFace", <<c, Head(faces), flagged, drop>>), Tail(faces), flagged, drop>>)

RecordDestroyed(c, ids) == IF ids = <<>> THEN c ELSE Call("RecordDestroyed", <<onNodeDestroyed_(c, Head(ids)), Tail(ids)>>)

\* destroyNodes_: unparent every node, then report and erase every node.
destroyNodes_(c, toDestroy) ==
    LET ns == c.nodes
        parents == {ns[d].parent : d \in toDestroy} \ {NULL}
        c1 == [c EXCEPT !.modified = @ \cup {<<p, ChildrenChanged>> : p \in parents}]
        ns1 == [id \in (DOMAIN ns) \ toDestroy |->
                  [ns[id] EXCEPT !.children = SelectSeq(@, LAMBDA k : k \notin toDestroy)]]
    IN  Call("RecordDestroyed", <<[c1 EXCEPT !.nodes = ns1], SetToSeq(toDestroy)>>)

\* Variant that destroys the flagged nodes and leaves every star as it is.
DeleteKeepingStars(c, flagged, isolated, touched) ==
    Call("destroyNodes_", <<c, flagged \cup isolated>>)

\* Last stage of delete_: the stars of the surviving boundary cells forget
\* the deleted cells, then every flagged node is destroyed.
DeleteUpdateStars(c, flagged, isolated, touched) ==
    Call("destroyNodes_", <<
        [c EXCEPT !.nodes = [id \in DOMAIN c.nodes |->
                     IF id \in touched THEN [c.nodes[id] EXCEPT !.star = SelectSeq(@, LAMBDA s : s \notin flagged)]
                     ELSE IF id \in flagged /\ IsCell(c.nodes[id]) THEN [c.nodes[id] EXCEPT !.star = <<>>]
                     ELSE c.nodes[id]],
                   !.modified = @ \cup {<<b, StarChanged>> : b \in touched}],
        flagged \cup isolated>>)

\* Variant that looks for isolated vertices in one pass only.
DeleteIsolatedInOnePass(c, deleteIsolatedVertices, flagged, bnd) ==
    LET isolated == IF deleteIsolatedVertices
                    THEN {b \in bnd : /\ c.nodes[b].kind \in {KeyVertexKind, InbetweenVertexKind}
                                      /\ \A s \in Range(c.nodes[b].star) : s \in flagged}
                    ELSE {}
    IN  DeleteUpdateStars(c, flagged, isolated, bnd \ isolated)

\* The boundary vertices left with an empty star are deleted too when asked:
\* the inbetween vertices of the boundary whose star is flagged, and the key
\* vertices, of the boundary or of the boundary of those inbetween vertices
\* (second pass), whose star is flagged or an isolated inbetween vertex.
DeleteIsolated(c, deleteIsolatedVertices, flagged, bnd) ==
    LET isolatedInbetweenVertices ==
            IF deleteIsolatedVertices
            THEN {b \in bnd : /\ c.nodes[b].kind = InbetweenVertexKind
                              /\ \A s \in Range(c.nodes[b].star) : s \in flagged}
            ELSE {}
        gone == flagged \cup isolatedInbetweenVertices
        reached == (bnd \cup UNION {Range(c.nodes[iv].boundary) : iv \in isolatedInbetweenVertices}) \ gone
        isolatedKeyVertices ==
            IF deleteIsolatedVertices
            THEN {b \in reached : /\ c.nodes[b].kind = KeyVertexKind
                                  /\ \A s \in Range(c.nodes[b].star) : s \in gone}
            ELSE {}
    IN  DeleteUpdateStars(c, gone, isolatedKeyVertices, reached \ isolatedKeyVertices)

\* The cells of the boundary of the flagged cells that are not flagged.
DeleteCollectBoundary(c, deleteIsolatedVertices, flagged) ==
    DeleteIsolated(c, deleteIsolatedVertices, flagged,
        UNION {Range(c.nodes[d].boundary) : d \in {x \in flagged : IsCell(c.nodes[x])}} \ flagged)

\* The star faces that cannot be repaired are flagged, the others repaired.
DeleteRepairStar(c, deleteIsolatedVertices, drop, starFaces, flagged, doomedFaces) ==
    DeleteCollectBoundary(Call("RepairFaces", <<c, SetToSeq(starFaces \ doomedFaces), flagged, drop>>),
                          deleteIsolatedVertices, flagged \cup doomedFaces)

DeleteClassifyStar(c, deleteIsolatedVertices, tryRepairingStarCells, drop, starFaces, flagged) ==
    DeleteRepairStar(c, deleteIsolatedVertices, drop, starFaces, flagged,
        IF tryRepairingStarCells
        THEN {kf \in starFaces : RepairedIndices(c.nodes, kf, flagged, drop) = {}}
        ELSE starFaces)

\* Variant that leaves the star of the deleted nodes alone.
DeleteWithoutStar(c, descendants, deleteIsolatedVertices, tryRepairingStarCells, drop, starAll) ==
    DeleteClassifyStar(c, deleteIsolatedVertices, tryRepairingStarCells, drop, {}, descendants)

DeleteWithStar(c, descendants, deleteIsolatedVertices, tryRepairingStarCells, drop, starAll) ==
    DeleteClassifyStar(c, deleteIsolatedVertices, tryRepairingStarCells, drop,
        {s \in starAll : c.nodes[s].kind = KeyFaceKind} \ descendants,
        descendants \cup {s \in starAll : c.nodes[s].kind # KeyFaceKind})

delete_(c, descendants, deleteIsolatedVertices, tryRepairingStarCells, drop) ==
    DeleteWithStar(c, descendants, deleteIsolatedVertices, tryRepairingStarCells, drop,
        UNION {Range(c.nodes[d].star) : d \in {x \in descendants : IsCell(c.nodes[x])}})

\* Variant that does not spare the root.
deleteWithDependentsAndRoot_(c, rootGroup, nodeSet, deleteIsolatedVertices, tryRepairingStarCells, drop) ==
    Call("delete_", <<c, (UNION {Descendants(c.nodes, n) : n \in nodeSet}) \cup nodeSet,
            deleteIsolatedVertices, tryRepairingStarCells, drop>>)

deleteWithDependents_(c, rootGroup, nodeSet, deleteIsolatedVertices, tryRepairingStarCells, drop) ==
    Call("delete_", <<c, (UNION {Descendants(c.nodes, n) : n \in nodeSet}) \cup (nodeSet \ {rootGroup}),
            deleteIsolatedVertices, tryRepairingStarCells, drop>>)

hardDelete(c, rootGroup, node, deleteIsolatedVertices) ==
    Call("deleteWithDependents_", <<c, rootGroup, {node}, deleteIsolatedVertices, FALSE, {}>>)

\* destroyChildlessNode_: unparent, drop from temporaryCellSet_, report, erase.
destroyChildlessNode_(c, node) ==
    LET ns == c.nodes
        p == ns[node].parent
        c1 == IF p # NULL
              THEN onNodeModified_([c EXCEPT !.nodes = [@ EXCEPT ![p].children = RemoveOne(@, node)]], p, {ChildrenChanged})
              ELSE c
        c2 == IF IsCell(ns[node]) THEN [c1 EXCEPT !.tmp = RemoveOne(@, node)] ELSE c1
    IN  onNodeDestroyed_([c2 EXCEPT !.nodes = [id \in (DOMAIN c2.nodes) \ {node} |-> c2.nodes[id]]], node)

\* ------------------------------------------------------------ substitution

\* Cell::substituteKeyVertex_ : an edge rewrites its end vertices, a face its
\* Steiner vertices.
substituteKeyVertex_(n, oldVertex, newVertex) ==
    IF n.kind = KeyEdgeKind
    THEN [n EXCEPT !.startVertex = IF @ = oldVertex THEN newVertex ELSE @,
                   !.endVertex = IF @ = oldVertex THEN newVertex ELSE @]
    ELSE [n EXCEPT !.cycles = [i \in 1..Len(@) |->
            IF @[i].steinerVertex = oldVertex THEN SteinerCycle(newVertex) ELSE @[i]]]

\* Variant that ignores the direction of the substituted halfedge.
SubstHalfedgeIgnoringDirection(h, oldKhe, newKhe) ==
    IF h.edge = oldKhe.edge THEN Halfedge(newKhe.edge, h.direction) ELSE h

SubstHalfedge(h, oldKhe, newKhe) ==
    IF h.edge = oldKhe.edge
    THEN Halfedge(newKhe.edge, IF h.direction = oldKhe.direction THEN newKhe.direction ELSE ~newKhe.direction)
    ELSE h

\* Cell::substituteKeyEdge_ : a face rewrites the halfedges of its cycles.
substituteKeyEdge_(n, oldKhe, newKhe) ==
    IF n.kind = KeyFaceKind
    THEN [n EXCEPT !.cycles = [i \in 1..Len(@) |->
            [@[i] EXCEPT !.halfedges = [j \in 1..Len(@) |-> SubstHalfedge(@[j], oldKhe, newKhe)]]]]
    ELSE n

SubstituteVertexIn(c, starCells, oldVertex, newVertex) ==
    IF starCells = <<>> THEN c
    ELSE LET sc == Head(starCells)
             c1 == [c EXCEPT !.nodes = [@ EXCEPT ![sc] = substituteKeyVertex_(@, oldVertex, newVertex)]]
         IN  Call("SubstituteVertexIn", <<addToBoundary_(removeFromBoundary_(c1, sc, oldVertex), sc, newVertex),
                                Tail(starCells), oldVertex, newVertex>>)

\* Variant that leaves the star of oldVertex untouched.
substituteVertexSkipped_(c, oldVertex, newVertex) == c

substituteVertex_(c, oldVertex, newVertex) ==
    IF newVertex = oldVertex THEN c
    ELSE Call("SubstituteVertexIn", <<c, c.nodes[oldVertex].star, oldVertex, newVertex>>)

SubstituteEdgeIn(c, starCells, oldKhe, newKhe) ==
    IF starCells = <<>> THEN c
    ELSE LET sc == Head(starCells)
             c1 == [c EXCEPT !.nodes = [@ EXCEPT ![sc] = substituteKeyEdge_(@, oldKhe, newKhe)]]
         IN  Call("SubstituteEdgeIn", <<addToBoundary_(removeFromBoundary_(c1, sc, oldKhe.edge), sc, newKhe.edge),
                              Tail(starCells), oldKhe, newKhe>>)

\* Variant that leaves the star of the old edge untouched.
substituteEdgeSkipped_(c, oldKhe, newKhe) == c

substituteEdge_(c, oldKhe, newKhe) ==
    IF oldKhe = newKhe THEN c
    ELSE Call("SubstituteEdgeIn", <<c, c.nodes[oldKhe.edge].star, oldKhe, newKhe>>)

\* ------------------------------------------------------------ sub-paths

rotatedCycleHalfedges_(cy, newStart) ==
    PathOfHalfedges(SubSeq(cy.halfedges, newStart + 1, Len(cy.halfedges)) \o SubSeq(cy.halfedges, 1, newStart))

\* subPath_ : indices are 0-based as in the code.
subPath_(ns, cy, first0, last0, loopIfEmptyRange) ==
    IF cy.steinerVertex # NULL THEN PathOfVertex(cy.steinerVertex)
    ELSE LET n == Len(cy.halfedges)
             first == first0 % n
             lst == last0 % n
         IN  IF first = lst
             THEN IF loopIfEmptyRange THEN rotatedCycleHalfedges_(cy, first)
                  ELSE PathOfVertex(HStart(ns, cy.halfedges[first + 1]))
             ELSE LET len == (lst - first + n) % n
                  IN  PathOfHalfedges([k \in 1..len |-> cy.halfedges[((first + k - 1) % n) + 1]])

\* ------------------------------------------------------------ uncut at vertex

NoHalfedge == [edge |-> NULL, direction |-> FALSE]

\* One iteration of the star loop of prepareUncutAtKeyVertex_; r.stop records
\* an early return.
PrepareVertexStep(ns, kv, r, starCell) ==
    IF r.stop THEN r
    ELSE IF ns[starCell].kind = KeyEdgeKind
    THEN LET r1 == IF IsStartVertex(ns, starCell, kv)
                   THEN IF r.khe1.edge = NULL THEN [r EXCEPT !.khe1 = Halfedge(starCell, FALSE)]
                        ELSE IF r.khe2.edge = NULL THEN [r EXCEPT !.khe2 = Halfedge(starCell, TRUE)]
                        ELSE [r EXCEPT !.stop = TRUE]
                   ELSE r
         IN  IF r1.stop THEN r1
             ELSE IF IsEndVertex(ns, starCell, kv)
             THEN IF r1.khe1.edge = NULL THEN [r1 EXCEPT !.khe1 = Halfedge(starCell, TRUE)]
                  ELSE IF r1.khe2.edge = NULL THEN [r1 EXCEPT !.khe2 = Halfedge(starCell, FALSE)]
                  ELSE [r1 EXCEPT !.stop = TRUE]
             ELSE r1
    ELSE IF ns[starCell].kind = KeyFaceKind
    THEN LET cycles == ns[starCell].cycles
             uses == {i \in 1..Len(cycles) : cycles[i].steinerVertex = kv}
         IN  IF uses = {} THEN r
             ELSE IF r.kf # NULL \/ Cardinality(uses) > 1 THEN [r EXCEPT !.stop = TRUE]
             ELSE [r EXCEPT !.kf = starCell, !.cycleIndex = (CHOOSE i \in uses : TRUE) - 1]
    ELSE r

RECURSIVE PrepareVertexLoop(_, _, _, _)
PrepareVertexLoop(ns, kv, r, starCells) ==
    IF starCells = <<>> THEN r
    ELSE PrepareVertexLoop(ns, kv, PrepareVertexStep(ns, kv, r, Head(starCells)), Tail(starCells))

\* kv is used as a u-turn between two different edges in a cycle of a star face.
HasUTurnAt(ns, kv) ==
    \E f \in Range(ns[kv].star) :
        /\ ns[f].kind = KeyFaceKind
        /\ \E ci \in 1..Len(ns[f].cycles) :
            LET cy == ns[f].cycles[ci]
                n == Len(cy.halfedges)
            IN  /\ cy.steinerVertex = NULL
                /\ \E i \in 1..n : /\ HStart(ns, cy.halfedges[i]) = kv
                                   /\ cy.halfedges[i].edge = cy.halfedges[IF i = 1 THEN n ELSE i - 1].edge

\* A cycle made of the loop edge ke traverses it in both directions.
HasLoopUTurn(ns, kv, ke) ==
    \E f \in Range(ns[kv].star) :
        /\ ns[f].kind = KeyFaceKind
        /\ \E ci \in 1..Len(ns[f].cycles) :
            LET cy == ns[f].cycles[ci]
            IN  /\ cy.steinerVertex = NULL
                /\ cy.halfedges[1].edge = ke
                /\ \E i \in 1..Len(cy.halfedges) : cy.halfedges[i].direction # cy.halfedges[1].direction

PrepareVertexResult(ns, kv, r) ==
    [khe1 |-> r.khe1, khe2 |-> r.khe2, kf |-> r.kf, cycleIndex |-> r.cycleIndex,
     isValid |-> IF r.stop THEN FALSE
                 ELSE IF r.khe1.edge # NULL
                 THEN IF r.kf = NULL /\ r.khe2.edge # NULL
                      THEN IF r.khe1.edge # r.khe2.edge THEN ~HasUTurnAt(ns, kv)
                           ELSE ~HasLoopUTurn(ns, kv, r.khe1.edge)
                      ELSE FALSE
                 ELSE r.kf # NULL]

prepareUncutAtKeyVertex_(ns, kv) ==
    PrepareVertexResult(ns, kv, PrepareVertexLoop(ns, kv,
        [khe1 |-> NoHalfedge, khe2 |-> NoHalfedge, kf |-> NULL, cycleIndex |-> 0, stop |-> FALSE], ns[kv].star))

\* The cycle rewrite of the concatenation case: e1 becomes the new edge, e2 is erased.
ConcatCycle(cy, khe1, khe2, newKe) ==
    IF cy.steinerVertex # NULL THEN cy
    ELSE LET hs == cy.halfedges
             kept == SubSeqAt(hs, {i \in 1..Len(hs) : hs[i].edge # khe2.edge \/ hs[i].edge = khe1.edge})
         IN  CycleOfHalfedges([i \in 1..Len(kept) |->
                IF kept[i].edge = khe1.edge THEN Halfedge(newKe, kept[i].direction = khe1.direction) ELSE kept[i]])

ConcatInFaces(c, starCells, khe1, khe2, newKe, targetKv) ==
    IF starCells = <<>> THEN c
    ELSE LET kf == Head(starCells)
         IN  IF c.nodes[kf].kind # KeyFaceKind THEN Call("ConcatInFaces", <<c, Tail(starCells), khe1, khe2, newKe, targetKv>>)
             ELSE LET c1 == [c EXCEPT !.nodes = [@ EXCEPT ![kf].cycles =
                                  [i \in 1..Len(@) |-> ConcatCycle(@[i], khe1, khe2, newKe)]]]
                      c2 == removeFromBoundary_(c1, kf, khe1.edge)
                      c3 == removeFromBoundary_(c2, kf, khe2.edge)
                      c4 == removeFromBoundary_(c3, kf, targetKv)
                  IN  Call("ConcatInFaces", <<addToBoundary_(c4, kf, newKe), Tail(starCells), khe1, khe2, newKe, targetKv>>)

RemoveFromBoundaryOfAll(c, cells, boundingCell) ==
    IF cells = <<>> THEN c
    ELSE Call("RemoveFromBoundaryOfAll", <<removeFromBoundary_(c, Head(cells), boundingCell), Tail(cells), boundingCell>>)

NoUncutAtKeyVertexResult(c) ==
    [c |-> c, success |-> FALSE, resultKe |-> NULL, resultKf |-> NULL,
     removedKeId1 |-> NULL, removedKeId2 |-> NULL, starEmpty |-> TRUE]

\* The last step of every case: targetKv is deleted and the outcome reported.
UncutAtKeyVertexResult(c, rootGroup, targetKv, resultKe, resultKf, removedKeId1, removedKeId2) ==
    [c |-> Call("hardDelete", <<c, rootGroup, targetKv, FALSE>>), success |-> TRUE,
     resultKe |-> resultKe, resultKf |-> resultKf, removedKeId1 |-> removedKeId1, removedKeId2 |-> removedKeId2,
     starEmpty |-> c.nodes[targetKv].star = <<>>]

RemoveFromBoundaryOfStar(c, targetKv) ==
    Call("RemoveFromBoundaryOfAll", <<c, c.nodes[targetKv].star, targetKv>>)

\* Transform open edge into closed edge.
UncutToClosedEdge(c, rootGroup, targetKv, oldKe, newKe) ==
    UncutAtKeyVertexResult(
        Call("hardDelete", <<RemoveFromBoundaryOfStar(
            Call("substituteEdge_", <<createKeyClosedEdge(c, c.nodes[oldKe].parent, NextSibling(c.nodes, oldKe)),
                                      Halfedge(oldKe, TRUE), Halfedge(newKe, TRUE)>>),
            targetKv), rootGroup, oldKe, FALSE>>),
        rootGroup, targetKv, newKe, NULL, oldKe, NULL)

ConcatInStar(c, khe1, khe2, newKe, targetKv) ==
    Call("ConcatInFaces", <<c, c.nodes[khe1.edge].star, khe1, khe2, newKe, targetKv>>)

\* Variant whose new edge runs from the end of khe2 to the start of khe1.
UncutToConcatenationBackwards(c, rootGroup, targetKv, khe1, khe2, bottomMostEdge, newKe) ==
    UncutAtKeyVertexResult(
        Call("hardDelete", <<Call("hardDelete", <<ConcatInStar(
            createKeyOpenEdge(c, HEnd(c.nodes, khe2), HStart(c.nodes, khe1),
                              c.nodes[bottomMostEdge].parent, bottomMostEdge),
            khe1, khe2, newKe, targetKv), rootGroup, khe1.edge, FALSE>>), rootGroup, khe2.edge, FALSE>>),
        rootGroup, targetKv, newKe, NULL, khe1.edge, khe2.edge)

\* Concatenate the two open edges.
UncutToConcatenation(c, rootGroup, targetKv, khe1, khe2, bottomMostEdge, newKe) ==
    UncutAtKeyVertexResult(
        Call("hardDelete", <<Call("hardDelete", <<ConcatInStar(
            createKeyOpenEdge(c, HStart(c.nodes, khe1), HEnd(c.nodes, khe2),
                              c.nodes[bottomMostEdge].parent, bottomMostEdge),
            khe1, khe2, newKe, targetKv), rootGroup, khe1.edge, FALSE>>), rootGroup, khe2.edge, FALSE>>),
        rootGroup, targetKv, newKe, NULL, khe1.edge, khe2.edge)

\* Variant that deletes the vertex even when no simplification is possible.
UncutAtKeyVertexDeletingAnyway(c, rootGroup, targetKv, info) ==
    IF ~info.isValid
    THEN NoUncutAtKeyVertexResult(Call("hardDelete", <<c, rootGroup, targetKv, FALSE>>))
    ELSE UncutAtKeyVertexResult(c, rootGroup, targetKv, NULL, NULL, NULL, NULL)

UncutAtKeyVertexWith(c, rootGroup, targetKv, info) ==
    IF ~info.isValid THEN NoUncutAtKeyVertexResult(c)
    ELSE IF info.kf # NULL
    THEN \* Remove Steiner vertex from face.
         UncutAtKeyVertexResult(
             removeFromBoundary_([c EXCEPT !.nodes = [@ EXCEPT ![info.kf].cycles = RemoveAt(@, info.cycleIndex + 1)]],
                                 info.kf, targetKv),
             rootGroup, targetKv, NULL, info.kf, NULL, NULL)
    ELSE IF info.khe1.edge = info.khe2.edge
    THEN UncutToClosedEdge(c, rootGroup, targetKv, info.khe1.edge, c.nextId)
    ELSE UncutToConcatenation(c, rootGroup, targetKv, info.khe1, info.khe2,
                              findBottomMost(c.nodes, <<info.khe1.edge, info.khe2.edge>>), c.nextId)

uncutAtKeyVertex(c, rootGroup, targetKv) ==
    UncutAtKeyVertexWith(c, rootGroup, targetKv, prepareUncutAtKeyVertex_(c.nodes, targetKv))

\* ------------------------------------------------------------ uncut at edge

\* The usages of ke as a cycle component, in the order the loops of
\* prepareUncutAtKeyEdge_ meet them: <<face, cycleIndex, componentIndex>>, 0-based.
CycleUsages(cy, ke, kf, ci) ==
    IF cy.steinerVertex # NULL THEN <<>>
    ELSE LET hits == {i \in 1..Len(cy.halfedges) : cy.halfedges[i].edge = ke}
         IN  [k \in 1..Cardinality(hits) |-> <<kf, ci - 1, SetToSeq(hits)[k] - 1>>]

RECURSIVE FaceUsages(_, _, _, _)
FaceUsages(ns, ke, kf, ci) ==
    IF ci > Len(ns[kf].cycles) THEN <<>>
    ELSE CycleUsages(ns[kf].cycles[ci], ke, kf, ci) \o FaceUsages(ns, ke, kf, ci + 1)

RECURSIVE EdgeUsages(_, _, _)
EdgeUsages(ns, ke, starCells) ==
    IF starCells = <<>> THEN <<>>
    ELSE (IF ns[Head(starCells)].kind = KeyFaceKind THEN FaceUsages(ns, ke, Head(starCells), 1) ELSE <<>>)
         \o EdgeUsages(ns, ke, Tail(starCells))

\* Variant that forgets the early return on a third usage.
prepareUncutAtKeyEdgeIgnoringExtraUses(ns, ke) ==
    LET u == EdgeUsages(ns, ke, ns[ke].star)
    IN  IF Len(u) >= 2
        THEN [isValid |-> TRUE, kf1 |-> u[1][1], cycleIndex1 |-> u[1][2], componentIndex1 |-> u[1][3],
              kf2 |-> u[2][1], cycleIndex2 |-> u[2][2], componentIndex2 |-> u[2][3]]
        ELSE [isValid |-> FALSE, kf1 |-> NULL, cycleIndex1 |-> 0, componentIndex1 |-> 0,
              kf2 |-> NULL, cycleIndex2 |-> 0, componentIndex2 |-> 0]

prepareUncutAtKeyEdge_(ns, ke) ==
    LET u == EdgeUsages(ns, ke, ns[ke].star)
    IN  IF Len(u) = 2
        THEN [isValid |-> TRUE, kf1 |-> u[1][1], cycleIndex1 |-> u[1][2], componentIndex1 |-> u[1][3],
              kf2 |-> u[2][1], cycleIndex2 |-> u[2][2], componentIndex2 |-> u[2][3]]
        ELSE [isValid |-> FALSE, kf1 |-> NULL, cycleIndex1 |-> 0, componentIndex1 |-> 0,
              kf2 |-> NULL, cycleIndex2 |-> 0, componentIndex2 |-> 0]

UsesEdgeFirst(cy, ke) == cy.steinerVertex = NULL /\ cy.halfedges[1].edge = ke

NoUncutAtKeyEdgeResult(c) ==
    [c |-> c, success |-> FALSE, resultKf |-> NULL, removedKfId1 |-> NULL, removedKfId2 |-> NULL, starEmpty |-> TRUE]

\* The two faces f1 # f2 are replaced by one new face with the given cycles.
MergeFacesResult(c, rootGroup, info, targetKe, newKf) ==
    [c |-> Call("hardDelete", <<c, rootGroup, targetKe, FALSE>>), success |-> TRUE, resultKf |-> newKf,
     removedKfId1 |-> info.kf1, removedKfId2 |-> info.kf2, starEmpty |-> c.nodes[targetKe].star = <<>>]

MergeFacesAbove(c, rootGroup, info, newCycles, targetKe, bottomMostFace) ==
    MergeFacesResult(
        Call("hardDelete", <<Call("hardDelete", <<createKeyFace(c, newCycles, c.nodes[bottomMostFace].parent, bottomMostFace),
                                                 rootGroup, info.kf1, FALSE>>), rootGroup, info.kf2, FALSE>>),
        rootGroup, info, targetKe, c.nextId)

MergeFaces(c, rootGroup, info, newCycles, targetKe) ==
    MergeFacesAbove(c, rootGroup, info, newCycles, targetKe, findBottomMost(c.nodes, <<info.kf1, info.kf2>>))

\* The cycles of one face are replaced, the edge leaves its boundary.
\* Variant that reports success without deleting the edge.
RewriteFaceResultKeepingEdge(c, rootGroup, kf, targetKe) ==
    [c |-> c, success |-> TRUE, resultKf |-> kf,
     removedKfId1 |-> NULL, removedKfId2 |-> NULL, starEmpty |-> c.nodes[targetKe].star = <<>>]

RewriteFaceResult(c, rootGroup, kf, targetKe) ==
    [c |-> Call("hardDelete", <<c, rootGroup, targetKe, FALSE>>), success |-> TRUE, resultKf |-> kf,
     removedKfId1 |-> NULL, removedKfId2 |-> NULL, starEmpty |-> c.nodes[targetKe].star = <<>>]

RewriteFace(c, rootGroup, kf, newCycles, targetKe) ==
    RewriteFaceResult(removeFromBoundary_([c EXCEPT !.nodes = [@ EXCEPT ![kf].cycles = newCycles]], kf, targetKe),
                      rootGroup, kf, targetKe)

\* Variant that walks the second cycle backwards whatever the directions.
SplicedCycleAlwaysReversed(ns, cycle1, i1, cycle2, i2) ==
    CycleOfPath(PathExtendReversed(subPath_(ns, cycle1, i1 + 1, i1, FALSE), subPath_(ns, cycle2, i2 + 1, i2, FALSE)))

\* The splice of two cycles that use the edge once each.
SplicedCycle(ns, cycle1, i1, cycle2, i2) ==
    LET p1 == subPath_(ns, cycle1, i1 + 1, i1, FALSE)
        p2 == subPath_(ns, cycle2, i2 + 1, i2, FALSE)
        d1 == cycle1.halfedges[i1 + 1].direction
        d2 == cycle2.halfedges[i2 + 1].direction
    IN  CycleOfPath(IF d1 = d2 THEN PathExtendReversed(p1, p2) ELSE PathExtend(p1, p2))

\* Variant that splices the two sub-paths whatever the directions.
SameCycleUncutAlwaysSpliced(ns, cy, i1, i2) ==
    <<CycleOfPath(PathExtendReversed(subPath_(ns, cy, i1 + 1, i2, FALSE), subPath_(ns, cy, i2 + 1, i1, FALSE)))>>

\* Variant that splits the cycle in two whatever the directions.
SameCycleUncutNeverSpliced(ns, cy, i1, i2) ==
    <<CycleOfPath(subPath_(ns, cy, i1 + 1, i2, FALSE)), CycleOfPath(subPath_(ns, cy, i2 + 1, i1, FALSE))>>

\* The cycles that replace a cycle using the edge twice.
SameCycleUncut(ns, cy, i1, i2) ==
    LET p1 == subPath_(ns, cy, i1 + 1, i2, FALSE)
        p2 == subPath_(ns, cy, i2 + 1, i1, FALSE)
        d1 == cy.halfedges[i1 + 1].direction
        d2 == cy.halfedges[i2 + 1].direction
    IN  IF d1 = d2 THEN <<CycleOfPath(PathExtendReversed(p1, p2))>>
        ELSE <<CycleOfPath(p1), CycleOfPath(p2)>>

UncutAtKeyEdgeWith(c, rootGroup, targetKe, info, cycles1, cycles2, ci1, ci2) ==
    IF ~info.isValid THEN NoUncutAtKeyEdgeResult(c)
    ELSE IF EdgeIsClosed(c.nodes, targetKe)
    THEN IF info.kf1 = info.kf2
         THEN Call("RewriteFace", <<c, rootGroup, info.kf1,
                          SubSeqAt(cycles1, {i \in 1..Len(cycles1) : ~UsesEdgeFirst(cycles1[i], targetKe)}),
                          targetKe>>)
         ELSE Call("MergeFaces", <<c, rootGroup, info,
                         SubSeqAt(cycles1, {i \in 1..Len(cycles1) : ~UsesEdgeFirst(cycles1[i], targetKe)})
                         \o SubSeqAt(cycles2, {i \in 1..Len(cycles2) : ~UsesEdgeFirst(cycles2[i], targetKe)}),
                         targetKe>>)
    ELSE IF info.kf1 = info.kf2
    THEN IF info.cycleIndex1 = info.cycleIndex2
         THEN Call("RewriteFace", <<c, rootGroup, info.kf1,
                          RemoveAt(cycles1 \o SameCycleUncut(c.nodes, cycles1[ci1], info.componentIndex1, info.componentIndex2), ci1),
                          targetKe>>)
         ELSE Call("RewriteFace", <<c, rootGroup, info.kf1,
                          SubSeqAt(Append(cycles1, SplicedCycle(c.nodes, cycles1[ci1], info.componentIndex1,
                                                                cycles1[ci2], info.componentIndex2)),
                                   (1..(Len(cycles1) + 1)) \ {ci1, ci2}),
                          targetKe>>)
    ELSE Call("MergeFaces", <<c, rootGroup, info,
                    SubSeqAt(cycles1, (1..Len(cycles1)) \ {ci1}) \o SubSeqAt(cycles2, (1..Len(cycles2)) \ {ci2})
                    \o <<SplicedCycle(c.nodes, cycles1[ci1], info.componentIndex1, cycles2[ci2], info.componentIndex2)>>,
                    targetKe>>)

UncutAtKeyEdgeInfo(c, rootGroup, targetKe, info) ==
    UncutAtKeyEdgeWith(c, rootGroup, targetKe, info,
                       IF info.isValid THEN c.nodes[info.kf1].cycles ELSE <<>>,
                       IF info.isValid THEN c.nodes[info.kf2].cycles ELSE <<>>,
                       info.cycleIndex1 + 1, info.cycleIndex2 + 1)

uncutAtKeyEdge(c, rootGroup, targetKe) ==
    UncutAtKeyEdgeInfo(c, rootGroup, targetKe, prepareUncutAtKeyEdge_(c.nodes, targetKe))

\* ------------------------------------------------------------ cut edge

\* Variant that keeps the order (newKe1, newKe2) for a backward halfedge.
CutHalfedgeInEdgeOrder(h, ke, newKe1, newKe2) ==
    IF h.edge # ke THEN <<h>>
    ELSE <<Halfedge(newKe1, h.direction), Halfedge(newKe2, h.direction)>>

\* One halfedge of a cycle after cutting open edge ke into (newKe1, newKe2).
CutHalfedge(h, ke, newKe1, newKe2) ==
    IF h.edge # ke THEN <<h>>
    ELSE IF h.direction THEN <<Halfedge(newKe1, TRUE), Halfedge(newKe2, TRUE)>>
    ELSE <<Halfedge(newKe2, FALSE), Halfedge(newKe1, FALSE)>>

RECURSIVE CutHalfedges(_, _, _, _)
CutHalfedges(hs, ke, newKe1, newKe2) ==
    IF hs = <<>> THEN <<>>
    ELSE CutHalfedge(Head(hs), ke, newKe1, newKe2) \o CutHalfedges(Tail(hs), ke, newKe1, newKe2)

CutEdgeInFaces(c, starCells, ke, newKe1, newKe2, newKv) ==
    IF starCells = <<>> THEN c
    ELSE LET kf == Head(starCells)
         IN  IF c.nodes[kf].kind # KeyFaceKind THEN Call("CutEdgeInFaces", <<c, Tail(starCells), ke, newKe1, newKe2, newKv>>)
             ELSE LET c1 == [c EXCEPT !.nodes = [@ EXCEPT ![kf].cycles = [i \in 1..Len(@) |->
                                  IF @[i].steinerVertex # NULL THEN @[i]
                                  ELSE CycleOfHalfedges(CutHalfedges(@[i].halfedges, ke, newKe1, newKe2))]]]
                      c2 == removeFromBoundary_(c1, kf, ke)
                      c3 == addToBoundary_(c2, kf, newKe1)
                      c4 == addToBoundary_(c3, kf, newKe2)
                  IN  Call("CutEdgeInFaces", <<addToBoundary_(c4, kf, newKv), Tail(starCells), ke, newKe1, newKe2, newKv>>)

AddToBoundaryOfAll(c, cells, boundingCell) ==
    IF cells = <<>> THEN c
    ELSE Call("AddToBoundaryOfAll", <<addToBoundary_(c, Head(cells), boundingCell), Tail(cells), boundingCell>>)

AddToBoundaryOfStar(c, ke, boundingCell) ==
    Call("AddToBoundaryOfAll", <<c, c.nodes[ke].star, boundingCell>>)

\* Closed edge: one open edge from newKv to newKv replaces ke.
CutClosedEdgeWith(c, rootGroup, ke, newKv, newKe) ==
    [c |-> Call("hardDelete", <<AddToBoundaryOfStar(
                    Call("substituteEdge_", <<c, Halfedge(ke, TRUE), Halfedge(newKe, TRUE)>>), newKe, newKv),
                rootGroup, ke, FALSE>>),
     edge1 |-> newKe, vertex |-> newKv, edge2 |-> newKe]

CutClosedEdge(c, rootGroup, ke, newKv) ==
    CutClosedEdgeWith(createKeyOpenEdge(c, newKv, newKv, c.nodes[ke].parent, ke), rootGroup, ke, newKv, c.nextId)

CutEdgeInStar(c, ke, newKe1, newKe2, newKv) ==
    Call("CutEdgeInFaces", <<c, c.nodes[ke].star, ke, newKe1, newKe2, newKv>>)

\* Open edge: two open edges start -> newKv -> end replace ke.
CutOpenEdgeWith(c, rootGroup, ke, newKv, newKe1, newKe2) ==
    [c |-> Call("hardDelete", <<CutEdgeInStar(
                    createKeyOpenEdge(c, newKv, c.nodes[ke].endVertex, c.nodes[ke].parent, ke),
                    ke, newKe1, newKe2, newKv),
                rootGroup, ke, FALSE>>),
     edge1 |-> newKe1, vertex |-> newKv, edge2 |-> newKe2]

CutOpenEdgeFirst(c, rootGroup, ke, newKv, newKe1) ==
    CutOpenEdgeWith(c, rootGroup, ke, newKv, newKe1, c.nextId)

CutOpenEdge(c, rootGroup, ke, newKv) ==
    CutOpenEdgeFirst(createKeyOpenEdge(c, c.nodes[ke].startVertex, newKv, c.nodes[ke].parent, ke),
                     rootGroup, ke, newKv, c.nextId)

cutEdge(c, rootGroup, ke) ==
    IF EdgeIsClosed(c.nodes, ke)
    THEN CutClosedEdge(createKeyVertex(c, c.nodes[ke].parent, NextSibling(c.nodes, ke)), rootGroup, ke, c.nextId)
    ELSE CutOpenEdge(createKeyVertex(c, c.nodes[ke].parent, NextSibling(c.nodes, ke)), rootGroup, ke, c.nextId)

\* ------------------------------------------------------------ cut face

Auto == "Auto"
Disk == "Disk"
Mobius == "Mobius"
Torus == "Torus"
ReverseNone == "ReverseNone"
ReverseStart == "ReverseStart"
ReverseEnd == "ReverseEnd"
ReverseBoth == "ReverseBoth"

OneCycleCutPolicy == {Auto, Disk, Mobius, Torus}

TwoCycleCutPolicy == {Auto, ReverseNone, ReverseStart, ReverseEnd, ReverseBoth}

\* KeyFaceVertexUsageIndex: <<cycleIndex, componentIndex>>, 0-based.
VertexUsages(ns, kf) ==
    UNION {{<<ci - 1, j - 1>> :
               j \in 1..(IF ns[kf].cycles[ci].steinerVertex # NULL THEN 1 ELSE Len(ns[kf].cycles[ci].halfedges))} :
           ci \in 1..Len(ns[kf].cycles)}

\* KeyFace::vertex(index)
FaceVertex(ns, kf, u) ==
    LET cy == ns[kf].cycles[u[1] + 1]
    IN  IF cy.steinerVertex # NULL THEN cy.steinerVertex ELSE HStart(ns, cy.halfedges[u[2] + 1])

cutGlueFaceWithVertex(c, kf, kv) ==
    addToBoundary_([c EXCEPT !.nodes = [@ EXCEPT ![kf].cycles = Append(@, SteinerCycle(kv))]], kf, kv)

cutFaceWithVertex(c, kf) ==
    Call("cutGlueFaceWithVertex", <<createKeyVertex(c, c.nodes[kf].parent, NextSibling(c.nodes, kf)), kf, c.nextId>>)

\* The face kf is replaced by two faces with the given cycles (Disk policy).
SplitFaceSecond(c, rootGroup, kf, cycles2, ke, kf1) ==
    [c |-> Call("hardDelete", <<createKeyFace(c, cycles2, c.nodes[kf].parent, kf), rootGroup, kf, FALSE>>),
     face1 |-> kf1, edge |-> ke, face2 |-> c.nextId]

SplitFace(c, rootGroup, kf, cycles1, cycles2, ke) ==
    SplitFaceSecond(createKeyFace(c, cycles1, c.nodes[kf].parent, kf), rootGroup, kf, cycles2, ke, c.nextId)

\* geo.mobius : outcome of the segment-intersection parity test of the Auto
\* one-cycle policy; geo.twoCycle : the policy with the least winding cost;
\* geo.side : the cycle indices (1-based) that the containment test sends to
\* the first face.
ResolveOneCyclePolicy(policy, path1, path2, geo) ==
    IF policy # Auto THEN policy
    ELSE IF path1.halfedges # <<>> /\ path2.halfedges # <<>> /\ geo.mobius THEN Mobius
    ELSE Disk

ResolveTwoCyclePolicy(policy, path1, path2, geo) ==
    IF policy # Auto THEN policy
    ELSE IF ~PathIsSingleVertex(path1) /\ ~PathIsSingleVertex(path2) THEN geo.twoCycle
    ELSE ReverseNone

cutGlueFaceAt(c, rootGroup, kf, khe, startIndex, endIndex, oneCycleCutPolicy, twoCycleCutPolicy, geo) ==
    LET ns == c.nodes
        cycles == ns[kf].cycles
        ci1 == startIndex[1] + 1
        ci2 == endIndex[1] + 1
    IN  IF ci1 = ci2
        THEN LET cy == cycles[ci1]
                 path1 == subPath_(ns, cy, endIndex[2], startIndex[2], TRUE)
                 path2 == subPath_(ns, cy, startIndex[2], endIndex[2], FALSE)
                 policy == ResolveOneCyclePolicy(oneCycleCutPolicy, path1, path2, geo)
                 newCycle1 == CycleOfPath(PathAppend(path1, khe))
                 newCycle2 == CycleOfPath(PathAppend(path2, Opposite(khe)))
                 others == (1..Len(cycles)) \ {ci1}
             IN  IF policy = Disk
                 THEN Call("SplitFace", <<c, rootGroup, kf,
                                <<newCycle1>> \o SubSeqAt(cycles, others \cap geo.side),
                                <<newCycle2>> \o SubSeqAt(cycles, others \ geo.side), khe.edge>>)
                 ELSE IF policy = Mobius
                 THEN LET newCycle == CycleOfPath(PathAppend(PathExtendReversed(PathAppend(path1, khe), path2), khe))
                      IN  [c |-> addToBoundary_([c EXCEPT !.nodes = [@ EXCEPT ![kf].cycles[ci1] = newCycle]], kf, khe.edge),
                           face1 |-> kf, edge |-> khe.edge, face2 |-> kf]
                 ELSE [c |-> addToBoundary_([c EXCEPT !.nodes = [@ EXCEPT ![kf].cycles =
                                                Append([cycles EXCEPT ![ci1] = newCycle1], newCycle2)]], kf, khe.edge),
                       face1 |-> kf, edge |-> khe.edge, face2 |-> kf]
        ELSE LET r1 == rotatedCycleHalfedges_(cycles[ci1], startIndex[2])
                 r2 == rotatedCycleHalfedges_(cycles[ci2], endIndex[2])
                 policy == ResolveTwoCyclePolicy(twoCycleCutPolicy, r1, r2, geo)
                 path1 == IF policy \in {ReverseStart, ReverseBoth} THEN PathReverse(r1) ELSE r1
                 path2 == IF policy \in {ReverseEnd, ReverseBoth} THEN PathReverse(r2) ELSE r2
                 newCycle == CycleOfPath(PathAppend(PathExtend(PathAppend(path1, khe), path2), Opposite(khe)))
             IN  [c |-> addToBoundary_([c EXCEPT !.nodes = [@ EXCEPT ![kf].cycles =
                                            RemoveAt([cycles EXCEPT ![ci1] = newCycle], ci2)]], kf, khe.edge),
                  face1 |-> kf, edge |-> khe.edge, face2 |-> kf]

\* The first usage of kv as a face corner or Steiner vertex, in cycle order.
FirstUsage(ns, kf, kv) ==
    LET us == {u \in VertexUsages(ns, kf) : FaceVertex(ns, kf, u) = kv}
    IN  CHOOSE u \in us : \A w \in us : u[1] < w[1] \/ (u[1] = w[1] /\ u[2] <= w[2])

cutGlueFace(c, rootGroup, kf, ke, oneCycleCutPolicy, twoCycleCutPolicy, geo) ==
    LET ns == c.nodes
        khe == Halfedge(ke, TRUE)
        cycles == ns[kf].cycles
    IN  IF ~EdgeIsClosed(ns, ke)
        THEN Call("cutGlueFaceAt", <<c, rootGroup, kf, khe, FirstUsage(ns, kf, ns[ke].startVertex),
                           FirstUsage(ns, kf, ns[ke].endVertex), oneCycleCutPolicy, twoCycleCutPolicy, geo>>)
        ELSE LET policy == IF oneCycleCutPolicy = Auto THEN Disk ELSE oneCycleCutPolicy
                 newCycle == CycleOfHalfedges(<<khe>>)
             IN  IF policy = Disk
                 THEN Call("SplitFace", <<c, rootGroup, kf,
                                <<newCycle>> \o SubSeqAt(cycles, (1..Len(cycles)) \cap geo.side),
                                <<CycleReversed(newCycle)>> \o SubSeqAt(cycles, (1..Len(cycles)) \ geo.side), ke>>)
                 ELSE IF policy = Mobius
                 THEN [c |-> addCycleToFace(c, kf, CycleOfHalfedges(<<khe, khe>>)), face1 |-> kf, edge |-> ke, face2 |-> kf]
                 ELSE [c |-> addCycleToFace(addCycleToFace(c, kf, newCycle), kf, CycleReversed(newCycle)),
                       face1 |-> kf, edge |-> ke, face2 |-> kf]

cutFaceWithClosedEdge(c, rootGroup, kf, oneCycleCutPolicy, geo) ==
    Call("cutGlueFace", <<createKeyClosedEdge(c, c.nodes[kf].parent, NextSibling(c.nodes, kf)),
                rootGroup, kf, c.nextId, oneCycleCutPolicy, Auto, geo>>)

cutFaceWithOpenEdge(c, rootGroup, kf, startIndex, endIndex, oneCycleCutPolicy, twoCycleCutPolicy, geo) ==
    Call("cutGlueFaceAt", <<createKeyOpenEdge(c, FaceVertex(c.nodes, kf, startIndex), FaceVertex(c.nodes, kf, endIndex),
                                    c.nodes[kf].parent, NextSibling(c.nodes, kf)),
                  rootGroup, kf, Halfedge(c.nextId, TRUE), startIndex, endIndex,
                  oneCycleCutPolicy, twoCycleCutPolicy, geo>>)

\* ------------------------------------------------------------------ glue

onGeometryChanged_(c, cell) ==
    LET c1 == onNodeModified_(c, cell, {GeometryChanged})
    IN  [c1 EXCEPT !.modified = @ \cup {<<sc, BoundaryGeometryChanged>> : sc \in Range(c.nodes[cell].star)}]

\* moved: whether the requested position differs from the current one.
setKeyVertexPosition(c, kv, moved) == IF moved THEN Call("onGeometryChanged_", <<c, kv>>) ELSE c

GlueVerticesLoop(c, rootGroup, kvs, seen, newKv) ==
    IF kvs = <<>> THEN c
    ELSE LET kv == Head(kvs)
         IN  IF kv \in seen THEN Call("GlueVerticesLoop", <<c, rootGroup, Tail(kvs), seen, newKv>>)
             ELSE LET c1 == Call("substituteVertex_", <<c, kv, newKv>>)
                      c2 == Call("hardDelete", <<c1, rootGroup, kv, FALSE>>)
                  IN  Then(c1, Then(c2, Call("GlueVerticesLoop", <<c2, rootGroup, Tail(kvs), seen \cup {kv}, newKv>>)))

\* Variant without the early return for inputs that are all the same vertex.
glueKeyVerticesAlwaysNew(c, rootGroup, kvs, moved) ==
    IF kvs = <<>> THEN [c |-> c, result |-> NULL]
    ELSE [c |-> Call("GlueVerticesLoop",
                     <<createKeyVertex(c, c.nodes[findTopMost(c.nodes, kvs)].parent,
                                       NextSibling(c.nodes, findTopMost(c.nodes, kvs))),
                       rootGroup, kvs, {}, c.nextId>>),
          result |-> c.nextId]

glueKeyVertices(c, rootGroup, kvs, moved) ==
    IF kvs = <<>> THEN [c |-> c, result |-> NULL]
    ELSE IF \A i \in 1..Len(kvs) : kvs[i] = kvs[1]
    THEN [c |-> Call("setKeyVertexPosition", <<c, kvs[1], moved>>), result |-> kvs[1]]
    ELSE LET topMostVertex == findTopMost(c.nodes, kvs)
             c1 == createKeyVertex(c, c.nodes[topMostVertex].parent, NextSibling(c.nodes, topMostVertex))
         IN  [c |-> Call("GlueVerticesLoop", <<c1, rootGroup, kvs, {}, c.nextId>>), result |-> c.nextId]

GlueEdgesLoop(c, rootGroup, khs, newKh) ==
    IF khs = <<>> THEN c
    ELSE LET c1 == Call("substituteEdge_", <<c, Head(khs), newKh>>)
             c2 == Call("hardDelete", <<c1, rootGroup, Head(khs).edge, TRUE>>)
         IN  Then(c1, Then(c2, Call("GlueEdgesLoop", <<c2, rootGroup, Tail(khs), newKh>>)))

glueKeyOpenEdges_(c, rootGroup, khs, moved) ==
    IF khs = <<>> THEN [c |-> c, result |-> NULL]
    ELSE LET r1 == Call("glueKeyVertices", <<c, rootGroup, [i \in 1..Len(khs) |-> HStart(c.nodes, khs[i])], moved>>)
             endVertices == [i \in 1..Len(khs) |-> HEnd(r1.c.nodes, khs[i])]
             collapse == Contains(endVertices, r1.result)
             r2 == Call("glueKeyVertices", <<r1.c, rootGroup, endVertices, moved>>)
             startKv == IF collapse THEN r2.result ELSE r1.result
             topMostEdge == findTopMost(r2.c.nodes, [i \in 1..Len(khs) |-> khs[i].edge])
             c3 == createKeyOpenEdge(r2.c, startKv, r2.result, r2.c.nodes[topMostEdge].parent,
                                     NextSibling(r2.c.nodes, topMostEdge))
         IN  Then(r1.c, Then(r2.c, [c |-> Call("GlueEdgesLoop", <<c3, rootGroup, khs, Halfedge(r2.c.nextId, TRUE)>>),
                                    result |-> r2.c.nextId, khs |-> khs]))

glueKeyClosedEdges_(c, rootGroup, khs) ==
    IF khs = <<>> THEN [c |-> c, result |-> NULL]
    ELSE LET topMostEdge == findTopMost(c.nodes, [i \in 1..Len(khs) |-> khs[i].edge])
             c1 == createKeyClosedEdge(c, c.nodes[topMostEdge].parent, NextSibling(c.nodes, topMostEdge))
         IN  [c |-> Call("GlueEdgesLoop", <<c1, rootGroup, khs, Halfedge(c.nextId, TRUE)>>), result |-> c.nextId]

\* dirs: the directions with the least sampling cost, used when the
\* direction is not decided by shared end vertices.
glueKeyOpenEdges(c, rootGroup, kes, dirs, moved) ==
    LET ns == c.nodes
        n == Len(kes)
    IN  IF n = 0 THEN [c |-> c, result |-> NULL]
        ELSE IF n = 1 THEN [c |-> c, result |-> kes[1]]
        ELSE LET ke00 == ns[kes[1]].startVertex
                 ke01 == ns[kes[1]].endVertex
                 ke10 == ns[kes[2]].startVertex
                 ke11 == ns[kes[2]].endVertex
                 isAnyLoop == (ke00 = ke01) \/ (ke10 = ke11)
                 sameDir == (ke00 = ke10) # (ke01 = ke11)
                 oppDir == (ke00 = ke11) # (ke01 = ke10)
             IN  IF n = 2 /\ ~isAnyLoop /\ (sameDir \/ oppDir)
                 THEN Call("glueKeyOpenEdges_", <<c, rootGroup, <<Halfedge(kes[1], TRUE), Halfedge(kes[2], sameDir)>>, moved>>)
                 ELSE Call("glueKeyOpenEdges_", <<c, rootGroup, [i \in 1..n |-> Halfedge(kes[i], dirs[i])], moved>>)

glueKeyClosedHalfedges(c, rootGroup, khs) ==
    IF Len(khs) = 0 THEN [c |-> c, result |-> NULL]
    ELSE IF Len(khs) = 1 THEN [c |-> c, result |-> khs[1].edge]
    ELSE Call("glueKeyClosedEdges_", <<c, rootGroup, khs>>)

glueKeyClosedEdges(c, rootGroup, kes, dirs) ==
    IF Len(kes) = 0 THEN [c |-> c, result |-> NULL]
    ELSE IF Len(kes) = 1 THEN [c |-> c, result |-> kes[1]]
    ELSE Call("glueKeyClosedEdges_", <<c, rootGroup, [i \in 1..Len(kes) |-> Halfedge(kes[i], dirs[i])]>>)

\* ---------------------------------------------------------------- unglue

\* The positions <<star index, cycle index, halfedge index>> of the halfedges
\* of the face cycles among the given star cells.
HalfedgeSlots(ns, starCells) ==
    UNION {UNION {{<<si, ci, j>> : j \in 1..Len(ns[starCells[si]].cycles[ci].halfedges)} :
                  ci \in 1..Len(ns[starCells[si]].cycles)} :
           si \in {k \in 1..Len(starCells) : ns[starCells[k]].kind = KeyFaceKind}}

SlotHalfedge(ns, starCells, t) == ns[starCells[t[1]]].cycles[t[2]].halfedges[t[3]]

\* Variant that finds no use.
countUsesOfKeyEdgeNone_(ns, ke) == 0

countUsesOfKeyEdge_(ns, ke) ==
    Cardinality({t \in HalfedgeSlots(ns, ns[ke].star) : SlotHalfedge(ns, ns[ke].star, t).edge = ke})

countSteinerUses_(ns, kv) ==
    Cardinality({t \in UNION {{<<si, ci>> : ci \in 1..Len(ns[ns[kv].star[si]].cycles)} :
                              si \in {k \in 1..Len(ns[kv].star) : ns[ns[kv].star[k]].kind = KeyFaceKind}} :
                    ns[ns[kv].star[t[1]]].cycles[t[2]].steinerVertex = kv})

HasFaceInStar(ns, ke) == \E i \in 1..Len(ns[ke].star) : ns[ns[ke].star[i]].kind = KeyFaceKind

countUsesOfKeyVertex_(ns, kv) ==
    LET star == ns[kv].star
        edgeEnds == {<<si, atStart>> \in (1..Len(star)) \X BOOLEAN :
                        /\ ns[star[si]].kind = KeyEdgeKind
                        /\ ~HasFaceInStar(ns, star[si])
                        /\ IF atStart THEN IsStartVertex(ns, star[si], kv) ELSE IsEndVertex(ns, star[si], kv)}
        corners == {t \in HalfedgeSlots(ns, star) : HStart(ns, SlotHalfedge(ns, star, t)) = kv}
    IN  Cardinality(edgeEnds) + countSteinerUses_(ns, kv) + Cardinality(corners)

duplicateTargetKe(c, targetKe) ==
    LET n == c.nodes[targetKe]
    IN  IF EdgeIsClosed(c.nodes, targetKe)
        THEN createKeyClosedEdge(c, n.parent, NextSibling(c.nodes, targetKe))
        ELSE createKeyOpenEdge(c, n.startVertex, n.endVertex, n.parent, NextSibling(c.nodes, targetKe))

UnglueHalfedges(c, kf, ci, j, targetKe, result) ==
    LET hs == c.nodes[kf].cycles[ci].halfedges
    IN  IF j > Len(hs) THEN [c |-> c, result |-> result]
        ELSE IF hs[j].edge # targetKe THEN Call("UnglueHalfedges", <<c, kf, ci, j + 1, targetKe, result>>)
        ELSE LET newKe == c.nextId
                 c1 == Call("duplicateTargetKe", <<c, targetKe>>)
                 c2 == [c1 EXCEPT !.nodes = [@ EXCEPT ![kf].cycles[ci].halfedges[j] = Halfedge(newKe, hs[j].direction)]]
             IN  Call("UnglueHalfedges", <<addToBoundary_(c2, kf, newKe), kf, ci, j + 1, targetKe, Append(result, newKe)>>)

UnglueCycles(c, kf, ci, targetKe, result) ==
    LET cycles == c.nodes[kf].cycles
    IN  IF ci > Len(cycles) THEN [c |-> c, result |-> result]
        ELSE IF cycles[ci].steinerVertex # NULL THEN Call("UnglueCycles", <<c, kf, ci + 1, targetKe, result>>)
        ELSE IF ~EdgeIsClosed(c.nodes, cycles[ci].halfedges[1].edge)
        THEN LET r == Call("UnglueHalfedges", <<c, kf, ci, 1, targetKe, result>>)
             IN  Call("UnglueCycles", <<r.c, kf, ci + 1, targetKe, r.result>>)
        ELSE IF cycles[ci].halfedges[1].edge = targetKe
        THEN LET newKe == c.nextId
                 c1 == Call("duplicateTargetKe", <<c, targetKe>>)
                 c2 == [c1 EXCEPT !.nodes = [@ EXCEPT ![kf].cycles[ci].halfedges =
                                                [j \in 1..Len(@) |-> Halfedge(newKe, @[j].direction)]]]
             IN  Call("UnglueCycles", <<addToBoundary_(c2, kf, newKe), kf, ci + 1, targetKe, Append(result, newKe)>>)
        ELSE Call("UnglueCycles", <<c, kf, ci + 1, targetKe, result>>)

\* The loop over the star of targetKe; threw: it met a cell that is not a key
\* face and left by the LogicError of the default case.
UnglueFaces(c, starCells, targetKe, result) ==
    IF starCells = <<>> THEN [c |-> c, result |-> result, threw |-> FALSE]
    ELSE IF c.nodes[Head(starCells)].kind # KeyFaceKind THEN [c |-> c, result |-> result, threw |-> TRUE]
    ELSE LET r == Call("UnglueCycles", <<c, Head(starCells), 1, targetKe, result>>)
         IN  Call("UnglueFaces", <<removeFromBoundary_(r.c, Head(starCells), targetKe), Tail(starCells), targetKe, r.result>>)

ResultOfUnglueFaces(r) == [c |-> r.c, result |-> IF r.threw THEN <<>> ELSE r.result, threw |-> r.threw]

\* Variant that does not delete the unglued edge.
unglueKeyEdgesKeepingTarget(c, rootGroup, targetKe) ==
    IF countUsesOfKeyEdge_(c.nodes, targetKe) <= 1 THEN [c |-> c, result |-> <<targetKe>>, threw |-> FALSE]
    ELSE ResultOfUnglueFaces(Call("UnglueFaces", <<c, c.nodes[targetKe].star, targetKe, <<>>>>))

unglueKeyEdges(c, rootGroup, targetKe) ==
    IF countUsesOfKeyEdge_(c.nodes, targetKe) <= 1 THEN [c |-> c, result |-> <<targetKe>>, threw |-> FALSE]
    ELSE LET r == Call("UnglueFaces", <<c, c.nodes[targetKe].star, targetKe, <<>>>>)
         IN  IF r.threw THEN ResultOfUnglueFaces(r)
             ELSE [c |-> Call("hardDelete", <<r.c, rootGroup, targetKe, FALSE>>), result |-> r.result, threw |-> FALSE]

UnglueIncidentEdges(c, rootGroup, starCells, unglued) ==
    IF starCells = <<>> THEN [c |-> c, ungluedKeyEdges |-> unglued, threw |-> FALSE]
    ELSE IF c.nodes[Head(starCells)].kind # KeyEdgeKind
    THEN Call("UnglueIncidentEdges", <<c, rootGroup, Tail(starCells), unglued>>)
    ELSE LET r == Call("unglueKeyEdges", <<c, rootGroup, Head(starCells)>>)
         IN  IF r.threw THEN [c |-> r.c, ungluedKeyEdges |-> unglued, threw |-> TRUE]
             ELSE Call("UnglueIncidentEdges", <<r.c, rootGroup, Tail(starCells),
                                 IF Len(r.result) > 1 THEN Append(unglued, <<Head(starCells), r.result>>) ELSE unglued>>)

duplicateTargetKv(c, targetKv) ==
    createKeyVertex(c, c.nodes[targetKv].parent, NextSibling(c.nodes, targetKv))

substituteTargetKvAtStartOrEndOfKhe(c, targetKv, khe, startVertex, newKv) ==
    LET ke == khe.edge
        atStart == (khe.direction = startVertex)
        otherEndKv == IF atStart THEN c.nodes[ke].endVertex ELSE c.nodes[ke].startVertex
        c1 == IF atStart THEN [c EXCEPT !.nodes = [@ EXCEPT ![ke].startVertex = newKv]]
              ELSE [c EXCEPT !.nodes = [@ EXCEPT ![ke].endVertex = newKv]]
        c2 == IF otherEndKv # targetKv THEN removeFromBoundary_(c1, ke, targetKv) ELSE c1
    IN  addToBoundary_(c2, ke, newKv)

UnglueEdgeEnds(c, targetKv, ke) ==
    IF HasFaceInStar(c.nodes, ke) THEN [c |-> c, result |-> <<>>]
    ELSE LET atStart == IsStartVertex(c.nodes, ke, targetKv)
             atEnd == IsEndVertex(c.nodes, ke, targetKv)
             kv1 == c.nextId
             c1 == IF atStart
                   THEN addToBoundary_([Call("duplicateTargetKv", <<c, targetKv>>) EXCEPT !.nodes = [@ EXCEPT ![ke].startVertex = kv1]], ke, kv1)
                   ELSE c
             kv2 == c1.nextId
             c2 == IF atEnd
                   THEN addToBoundary_([Call("duplicateTargetKv", <<c1, targetKv>>) EXCEPT !.nodes = [@ EXCEPT ![ke].endVertex = kv2]], ke, kv2)
                   ELSE c1
         IN  [c |-> removeFromBoundary_(c2, ke, targetKv),
              result |-> (IF atStart THEN <<kv1>> ELSE <<>>) \o (IF atEnd THEN <<kv2>> ELSE <<>>)]

UnglueCorners(c, targetKv, kf, ci, i, result) ==
    LET hs == c.nodes[kf].cycles[ci].halfedges
        n == Len(hs)
    IN  IF i > n THEN [c |-> c, result |-> result]
        ELSE IF HStart(c.nodes, hs[i]) # targetKv THEN Call("UnglueCorners", <<c, targetKv, kf, ci, i + 1, result>>)
        ELSE LET newKv == c.nextId
                 c1 == Call("duplicateTargetKv", <<c, targetKv>>)
                 c2 == Call("substituteTargetKvAtStartOrEndOfKhe", <<c1, targetKv, hs[((i + n - 2) % n) + 1], FALSE, newKv>>)
                 c3 == Call("substituteTargetKvAtStartOrEndOfKhe", <<c2, targetKv, hs[i], TRUE, newKv>>)
             IN  Call("UnglueCorners", <<addToBoundary_(c3, kf, newKv), targetKv, kf, ci, i + 1, Append(result, newKv)>>)

UnglueFaceVertexUses(c, targetKv, kf, ci, result) ==
    LET cycles == c.nodes[kf].cycles
    IN  IF ci > Len(cycles) THEN [c |-> removeFromBoundary_(c, kf, targetKv), result |-> result]
        ELSE IF cycles[ci].steinerVertex = targetKv
        THEN LET newKv == c.nextId
                 c1 == [Call("duplicateTargetKv", <<c, targetKv>>) EXCEPT !.nodes = [@ EXCEPT ![kf].cycles[ci] = SteinerCycle(newKv)]]
             IN  Call("UnglueFaceVertexUses", <<addToBoundary_(c1, kf, newKv), targetKv, kf, ci + 1, Append(result, newKv)>>)
        ELSE IF cycles[ci].steinerVertex # NULL THEN Call("UnglueFaceVertexUses", <<c, targetKv, kf, ci + 1, result>>)
        ELSE LET r == Call("UnglueCorners", <<c, targetKv, kf, ci, 1, result>>)
             IN  Call("UnglueFaceVertexUses", <<r.c, targetKv, kf, ci + 1, r.result>>)

UnglueVertexUses(c, targetKv, starCells, result) ==
    IF starCells = <<>> THEN [c |-> c, result |-> result, threw |-> FALSE]
    ELSE IF c.nodes[Head(starCells)].kind \notin {KeyEdgeKind, KeyFaceKind} THEN [c |-> c, result |-> result, threw |-> TRUE]
    ELSE LET r == IF c.nodes[Head(starCells)].kind = KeyEdgeKind
                  THEN Call("UnglueEdgeEnds", <<c, targetKv, Head(starCells)>>)
                  ELSE Call("UnglueFaceVertexUses", <<c, targetKv, Head(starCells), 1, <<>>>>)
         IN  Call("UnglueVertexUses", <<r.c, targetKv, Tail(starCells), result \o r.result>>)

\* Variant that does not unglue the incident edges first.
unglueKeyVerticesKeepingEdges(c, rootGroup, targetKv) ==
    IF countUsesOfKeyVertex_(c.nodes, targetKv) <= 1
    THEN [c |-> c, result |-> <<targetKv>>, ungluedKeyEdges |-> <<>>, threw |-> FALSE]
    ELSE LET r2 == Call("UnglueVertexUses", <<c, targetKv, c.nodes[targetKv].star, <<>>>>)
         IN  [c |-> IF r2.threw THEN r2.c ELSE Call("hardDelete", <<r2.c, rootGroup, targetKv, FALSE>>),
              result |-> IF r2.threw THEN <<>> ELSE r2.result,
              ungluedKeyEdges |-> <<>>, threw |-> r2.threw]

unglueKeyVertices(c, rootGroup, targetKv) ==
    IF countUsesOfKeyVertex_(c.nodes, targetKv) <= 1
    THEN [c |-> c, result |-> <<targetKv>>, ungluedKeyEdges |-> <<>>, threw |-> FALSE]
    ELSE LET r1 == Call("UnglueIncidentEdges", <<c, rootGroup, c.nodes[targetKv].star, <<>>>>)
             r2 == Call("UnglueVertexUses", <<r1.c, targetKv, r1.c.nodes[targetKv].star, <<>>>>)
         IN  IF r1.threw THEN [c |-> r1.c, result |-> <<>>, ungluedKeyEdges |-> r1.ungluedKeyEdges, threw |-> TRUE]
             ELSE IF r2.threw THEN [c |-> r2.c, result |-> <<>>, ungluedKeyEdges |-> r1.ungluedKeyEdges, threw |-> TRUE]
             ELSE [c |-> Call("hardDelete", <<r2.c, rootGroup, targetKv, FALSE>>), result |-> r2.result,
                   ungluedKeyEdges |-> r1.ungluedKeyEdges, threw |-> FALSE]

\* ----------------------------------------------------------- soft delete

AppendUnique(s, x) == IF Contains(s, x) THEN s ELSE Append(s, x)

RECURSIVE visitGroup_(_, _, _)
RECURSIVE VisitChildren(_, _, _)
\* ResolvedSelection::visitChildNode_ applied to each child in turn.
VisitChildren(ns, sel, children) ==
    IF children = <<>> THEN sel
    ELSE LET node == Head(children)
             sel1 == IF IsGroup(ns[node]) THEN visitGroup_(ns, sel, node)
                     ELSE IF Contains(sel.cells, node) THEN [sel EXCEPT !.topCells = RemoveOne(@, node)]
                     ELSE [sel EXCEPT !.cells = Append(@, node)]
         IN  VisitChildren(ns, sel1, Tail(children))

visitGroup_(ns, sel, group) ==
    IF Contains(sel.groups, group) THEN [sel EXCEPT !.topGroups = RemoveOne(@, group)]
    ELSE VisitChildren(ns, [sel EXCEPT !.groups = Append(@, group), !.topGroups = Append(@, group)],
                       ns[group].children)

RECURSIVE SelectGroups(_, _, _)
SelectGroups(ns, sel, nodeSeq) ==
    IF nodeSeq = <<>> THEN sel
    ELSE SelectGroups(ns, IF IsGroup(ns[Head(nodeSeq)]) THEN visitGroup_(ns, sel, Head(nodeSeq)) ELSE sel,
                      Tail(nodeSeq))

RECURSIVE SelectCells(_, _, _)
SelectCells(ns, sel, nodeSeq) ==
    IF nodeSeq = <<>> THEN sel
    ELSE SelectCells(ns,
                     IF IsCell(ns[Head(nodeSeq)]) /\ ~Contains(sel.cells, Head(nodeSeq))
                     THEN [sel EXCEPT !.cells = Append(@, Head(nodeSeq)), !.topCells = Append(@, Head(nodeSeq))]
                     ELSE sel,
                     Tail(nodeSeq))

ResolvedSelection(ns, nodeSeq) ==
    SelectCells(ns, SelectGroups(ns, [groups |-> <<>>, cells |-> <<>>, topGroups |-> <<>>, topCells |-> <<>>],
                                 nodeSeq), nodeSeq)

\* ClassifiedCells: the cells of one kind, in insertion order.
CellsOfKind(ns, cells, kind) == SelectSeq(cells, LAMBDA x : ns[x].kind = kind)

RECURSIVE Uniq(_)
Uniq(s) == IF s = <<>> THEN <<>> ELSE AppendUnique(Uniq(SubSeq(s, 1, Len(s) - 1)), s[Len(s)])

RECURSIVE ConcatStars(_, _)
ConcatStars(ns, cells) == IF cells = <<>> THEN <<>> ELSE ns[Head(cells)].star \o ConcatStars(ns, Tail(cells))

\* classifyStar(cells), then the cells of one kind of the classified star.
classifyStar(ns, cells, kind) == CellsOfKind(ns, Uniq(ConcatStars(ns, cells)), kind)

\* closure and opening of a cell selection.
opening(ns, cells) == cells \cup UNION {Range(ns[x].star) : x \in cells}

closure(ns, cells) == cells \cup UNION {Range(ns[x].boundary) : x \in cells}

\* uncutCells: the cells that could not be uncut stay in the list.
UncutKeyEdgesLoop(c, rootGroup, cells, kept) ==
    IF cells = <<>> THEN [c |-> c, cells |-> kept]
    ELSE LET r == Call("uncutAtKeyEdge", <<c, rootGroup, Head(cells)>>)
         IN  IF r.success THEN Call("UncutKeyEdgesLoop", <<r.c, rootGroup, Tail(cells), kept>>)
             ELSE Call("UncutKeyEdgesLoop", <<r.c, rootGroup, Tail(cells), Append(kept, Head(cells))>>)

uncutKeyEdges(c, rootGroup, cells) == Call("UncutKeyEdgesLoop", <<c, rootGroup, cells, <<>>>>)

UncutKeyVerticesLoop(c, rootGroup, cells, kept) ==
    IF cells = <<>> THEN [c |-> c, cells |-> kept]
    ELSE LET r == Call("uncutAtKeyVertex", <<c, rootGroup, Head(cells)>>)
         IN  IF r.success THEN Call("UncutKeyVerticesLoop", <<r.c, rootGroup, Tail(cells), kept>>)
             ELSE Call("UncutKeyVerticesLoop", <<r.c, rootGroup, Tail(cells), Append(kept, Head(cells))>>)

uncutKeyVertices(c, rootGroup, cells) == Call("UncutKeyVerticesLoop", <<c, rootGroup, cells, <<>>>>)

deleteCells(c, rootGroup, cells, drop) ==
    Call("deleteWithDependents_", <<c, rootGroup, Range(cells), FALSE, TRUE, drop>>)

SoftDeleteEdges(c, rootGroup, kes0, drop) ==
    LET r1 == Call("uncutKeyEdges", <<c, rootGroup, kes0>>)
        r2 == IF r1.cells # <<>> THEN Call("uncutKeyEdges", <<r1.c, rootGroup, r1.cells>>) ELSE r1
    IN  Then(r1.c, Then(r2.c, Call("deleteCells", <<r2.c, rootGroup, r2.cells, drop>>)))

SoftDeleteVertices(c, rootGroup, kvs0, drop) ==
    LET r1 == Call("uncutKeyVertices", <<c, rootGroup, kvs0>>)
        e2 == Call("uncutKeyEdges", <<r1.c, rootGroup, classifyStar(r1.c.nodes, r1.cells, KeyEdgeKind)>>)
        r2 == IF r1.cells # <<>> THEN Call("uncutKeyVertices", <<e2.c, rootGroup, r1.cells>>) ELSE r1
        e3 == Call("uncutKeyEdges", <<r2.c, rootGroup, classifyStar(r2.c.nodes, r2.cells, KeyEdgeKind)>>)
        r3 == IF r2.cells # <<>> THEN Call("uncutKeyVertices", <<e3.c, rootGroup, r2.cells>>) ELSE r2
    IN  Then(r1.c, Then(r2.c, Then(r3.c, Call("deleteCells", <<r3.c, rootGroup, r3.cells, drop>>))))

\* The top groups are destroyed in turn; destroyChildlessNode_ asserts that
\* the group has no children, and a failed assertion throws.
DestroyTopGroups(c, groups) ==
    IF groups = <<>> THEN [c |-> c, threw |-> FALSE]
    ELSE IF c.nodes[Head(groups)].children # <<>> THEN [c |-> c, threw |-> TRUE]
    ELSE Call("DestroyTopGroups", <<Call("destroyChildlessNode_", <<c, Head(groups)>>), Tail(groups)>>)

\* The residual pass reads every cell of temporaryCellSet_.  A cell of the
\* set that was destroyed by destroyNodes_ is a dangling pointer: kinds is
\* what it pointed to, and stale tells whether the freed memory still reads
\* as that cell (with the star that delete_ cleared) or as something that
\* is not a key vertex.
ResidualPass(c, cells, kinds, stale) ==
    IF cells = <<>> THEN c
    ELSE LET x == Head(cells)
             c1 == IF x \in DOMAIN c.nodes
                   THEN IF c.nodes[x].kind = KeyVertexKind /\ c.nodes[x].star = <<>>
                        THEN Call("destroyChildlessNode_", <<c, x>>) ELSE c
                   ELSE IF stale /\ kinds[x] = KeyVertexKind
                        THEN onNodeDestroyed_([c EXCEPT !.tmp = RemoveOne(@, x)], x) ELSE c
         IN  Call("ResidualPass", <<c1, Tail(cells), kinds, stale>>)

\* Besides the context and whether an assertion failed, the result records
\* the cells of temporaryCellSet_ that were already destroyed when the
\* residual pass read them, and the destroyed ids of the diff at the end.
softDelete(c, rootGroup, nodeSeq, drop, stale) ==
    IF nodeSeq = <<>> THEN [c |-> c, threw |-> FALSE, danglingReads |-> {}, destroyed |-> c.destroyed]
    ELSE LET ns == c.nodes
             selection == ResolvedSelection(ns, nodeSeq)
             tmpSet == closure(ns, opening(ns, Range(selection.cells)))
             kinds == [x \in tmpSet |-> ns[x].kind]
             c0 == [c EXCEPT !.tmp = SetToSeq(tmpSet)]
             c1 == Call("deleteCells", <<c0, rootGroup, CellsOfKind(ns, selection.cells, KeyFaceKind), drop>>)
             c2 == Call("SoftDeleteEdges", <<c1, rootGroup, CellsOfKind(ns, selection.cells, KeyEdgeKind), drop>>)
             c3 == Call("SoftDeleteVertices", <<c2, rootGroup, CellsOfKind(ns, selection.cells, KeyVertexKind), drop>>)
             g == Call("DestroyTopGroups", <<c3, selection.topGroups>>)
             r == IF g.threw THEN g.c ELSE Call("ResidualPass", <<g.c, g.c.tmp, kinds, stale>>)
         IN  Then(c1, Then(c2, Then(c3, Then(r,
                  [c |-> r, threw |-> g.threw, destroyed |-> r.destroyed,
                   danglingReads |-> IF g.threw THEN {} ELSE Range(g.c.tmp) \ DOMAIN g.c.nodes]))))

\* simplify, first loop: uncutAtKeyEdge on every input edge.  st carries
\* resultEdgeIds, resultFaceIds and the list of attempts made so far.
SimplifyEdgesLoop(c, rootGroup, kes, st) ==
    IF kes = <<>> THEN [c |-> c, st |-> st]
    ELSE LET ke == Head(kes)
             res == Call("uncutAtKeyEdge", <<c, rootGroup, ke>>)
             attempts == Append(st.attempts, [cell |-> ke, success |-> res.success])
         IN  IF res.success
             THEN Call("SimplifyEdgesLoop", <<res.c, rootGroup, Tail(kes),
                       [st EXCEPT !.attempts = attempts,
                                  !.resultFaceIds = ((@ \ {res.removedKfId1, res.removedKfId2}) \cup {res.resultKf}) \ {NULL}]>>)
             ELSE Call("SimplifyEdgesLoop", <<res.c, rootGroup, Tail(kes),
                       [st EXCEPT !.attempts = attempts, !.resultEdgeIds = @ \cup {ke}]>>)

\* A second loop that gives up at the first vertex that cannot be uncut.
SimplifyVerticesLoopStoppingAtFailure(c, rootGroup, kvs, st, nullDeref) ==
    IF kvs = <<>> THEN [c |-> c, st |-> st]
    ELSE LET kv == Head(kvs)
             res == Call("uncutAtKeyVertex", <<c, rootGroup, kv>>)
             attempts == Append(st.attempts, [cell |-> kv, success |-> res.success])
         IN  IF res.success
             THEN Call("SimplifyVerticesLoop", <<res.c, rootGroup, Tail(kvs),
                       [st EXCEPT !.attempts = attempts,
                                  !.resultEdgeIds = ((@ \ {res.removedKeId1, res.removedKeId2}) \cup {res.resultKe}) \ {NULL}],
                       nullDeref>>)
             ELSE [c |-> res.c, st |-> [st EXCEPT !.attempts = attempts, !.result = Append(@, kv)]]

\* simplify, second loop: uncutAtKeyVertex on every input vertex.  When the
\* uncut result carries a face, the id is read through res.resultKe; with a
\* null resultKe that read is undefined: nullDeref is what the build makes
\* of it, either a fault that ends the call or a read of some value that
\* goes into resultFaceIds.
SimplifyVerticesLoop(c, rootGroup, kvs, st, nullDeref) ==
    IF kvs = <<>> THEN [c |-> c, st |-> st]
    ELSE LET kv == Head(kvs)
             res == Call("uncutAtKeyVertex", <<c, rootGroup, kv>>)
             attempts == Append(st.attempts, [cell |-> kv, success |-> res.success])
             edgeIds == ((st.resultEdgeIds \ {res.removedKeId1, res.removedKeId2}) \cup {res.resultKe}) \ {NULL}
             derefsNull == res.resultKf # NULL /\ res.resultKe = NULL
             st1 == [st EXCEPT !.attempts = attempts, !.resultEdgeIds = edgeIds,
                               !.resultFaceIds = IF res.resultKf # NULL /\ res.resultKe # NULL
                                                 THEN @ \cup {res.resultKe} ELSE @,
                               !.derefNull = @ \/ derefsNull]
         IN  IF res.success
             THEN IF derefsNull /\ nullDeref = "fault"
                  THEN [c |-> res.c, st |-> [st1 EXCEPT !.crashed = TRUE]]
                  ELSE Call("SimplifyVerticesLoop", <<res.c, rootGroup, Tail(kvs), st1, nullDeref>>)
             ELSE Call("SimplifyVerticesLoop", <<res.c, rootGroup, Tail(kvs),
                       [st EXCEPT !.attempts = attempts, !.result = Append(@, kv)], nullDeref>>)

\* Operations::simplify.  The ids of resultEdgeIds are appended in the order
\* of the hash set, which is unspecified: the result is compared as a set.
simplify(c, rootGroup, kvs, kes, nullDeref) ==
    LET st0 == [resultEdgeIds |-> {}, resultFaceIds |-> {}, attempts |-> <<>>, result |-> <<>>,
                derefNull |-> FALSE, crashed |-> FALSE]
    IN  IF kvs = <<>> /\ kes = <<>>
        THEN [c |-> c, result |-> <<>>, attempts |-> <<>>, derefNull |-> FALSE, crashed |-> FALSE]
        ELSE LET e == Call("SimplifyEdgesLoop", <<c, rootGroup, kes, st0>>)
                 v == Call("SimplifyVerticesLoop", <<e.c, rootGroup, kvs, e.st, nullDeref>>)
                 kept == {id \in v.st.resultEdgeIds : id \in DOMAIN v.c.nodes /\ v.c.nodes[id].kind = KeyEdgeKind}
             IN  Then(e.c, Then(v.c,
                      [c |-> v.c, attempts |-> v.st.attempts, derefNull |-> v.st.derefNull, crashed |-> v.st.crashed,
                       result |-> IF v.st.crashed THEN <<>> ELSE v.st.result \o SetToSeq(kept)]))

\* ---------------------------------------------------------------- dispatch

\* The operations call one another by name: Call(op, args) is op applied to args.
\* The arguments are evaluated before the operation is entered.
Call(op, args) ==
    IF Len(args) = 0 THEN args ELSE
    CASE op = "RepairFace" -> RepairFace(args[1], args[2], args[3], args[4])
      [] op = "RepairFaces" -> RepairFaces(args[1], args[2], args[3], args[4])
      [] op = "RecordDestroyed" -> RecordDestroyed(args[1], args[2])
      [] op = "destroyNodes_" -> destroyNodes_(args[1], args[2])
      [] op = "delete_" -> delete_(args[1], args[2], args[3], args[4], args[5])
      [] op = "deleteWithDependents_" -> deleteWithDependents_(args[1], args[2], args[3], args[4], args[5], args[6])
      [] op = "hardDelete" -> hardDelete(args[1], args[2], args[3], args[4])
      [] op = "destroyChildlessNode_" -> destroyChildlessNode_(args[1], args[2])
      [] op = "SubstituteVertexIn" -> SubstituteVertexIn(args[1], args[2], args[3], args[4])
      [] op = "substituteVertex_" -> substituteVertex_(args[1], args[2], args[3])
      [] op = "SubstituteEdgeIn" -> SubstituteEdgeIn(args[1], args[2], args[3], args[4])
      [] op = "substituteEdge_" -> substituteEdge_(args[1], args[2], args[3])
      [] op = "ConcatInFaces" -> ConcatInFaces(args[1], args[2], args[3], args[4], args[5], args[6])
      [] op = "RemoveFromBoundaryOfAll" -> RemoveFromBoundaryOfAll(args[1], args[2], args[3])
      [] op = "uncutAtKeyVertex" -> uncutAtKeyVertex(args[1], args[2], args[3])
      [] op = "MergeFaces" -> MergeFaces(args[1], args[2], args[3], args[4], args[5])
      [] op = "RewriteFace" -> RewriteFace(args[1], args[2], args[3], args[4], args[5])
      [] op = "uncutAtKeyEdge" -> uncutAtKeyEdge(args[1], args[2], args[3])
      [] op = "CutEdgeInFaces" -> CutEdgeInFaces(args[1], args[2], args[3], args[4], args[5], args[6])
      [] op = "AddToBoundaryOfAll" -> AddToBoundaryOfAll(args[1], args[2], args[3])
      [] op = "cutEdge" -> cutEdge(args[1], args[2], args[3])
      [] op = "cutGlueFaceWithVertex" -> cutGlueFaceWithVertex(args[1], args[2], args[3])
      [] op = "cutFaceWithVertex" -> cutFaceWithVertex(args[1], args[2])
      [] op = "SplitFace" -> SplitFace(args[1], args[2], args[3], args[4], args[5], args[6])
      [] op = "cutGlueFaceAt" -> cutGlueFaceAt(args[1], args[2], args[3], args[4], args[5], args[6], args[7], args[8], args[9])
      [] op = "cutGlueFace" -> cutGlueFace(args[1], args[2], args[3], args[4], args[5], args[6], args[7])
      [] op = "cutFaceWithClosedEdge" -> cutFaceWithClosedEdge(args[1], args[2], args[3], args[4], args[5])
      [] op = "cutFaceWithOpenEdge" -> cutFaceWithOpenEdge(args[1], args[2], args[3], args[4], args[5], args[6], args[7], args[8])
      [] op = "onGeometryChanged_" -> onGeometryChanged_(args[1], args[2])
      [] op = "setKeyVertexPosition" -> setKeyVertexPosition(args[1], args[2], args[3])
      [] op = "GlueVerticesLoop" -> GlueVerticesLoop(args[1], args[2], args[3], args[4], args[5])
      [] op = "glueKeyVertices" -> glueKeyVertices(args[1], args[2], args[3], args[4])
      [] op = "GlueEdgesLoop" -> GlueEdgesLoop(args[1], args[2], args[3], args[4])
      [] op = "glueKeyOpenEdges_" -> glueKeyOpenEdges_(args[1], args[2], args[3], args[4])
      [] op = "glueKeyClosedEdges_" -> glueKeyClosedEdges_(args[1], args[2], args[3])
      [] op = "glueKeyOpenEdges" -> glueKeyOpenEdges(args[1], args[2], args[3], args[4], args[5])
      [] op = "glueKeyClosedHalfedges" -> glueKeyClosedHalfedges(args[1], args[2], args[3])
      [] op = "glueKeyClosedEdges" -> glueKeyClosedEdges(args[1], args[2], args[3], args[4])
      [] op = "duplicateTargetKe" -> duplicateTargetKe(args[1], args[2])
      [] op = "UnglueHalfedges" -> UnglueHalfedges(args[1], args[2], args[3], args[4], args[5], args[6])
      [] op = "UnglueCycles" -> UnglueCycles(args[1], args[2], args[3], args[4], args[5])
      [] op = "UnglueFaces" -> UnglueFaces(args[1], args[2], args[3], args[4])
      [] op = "unglueKeyEdges" -> unglueKeyEdges(args[1], args[2], args[3])
      [] op = "UnglueIncidentEdges" -> UnglueIncidentEdges(args[1], args[2], args[3], args[4])
      [] op = "duplicateTargetKv" -> duplicateTargetKv(args[1], args[2])
      [] op = "substituteTargetKvAtStartOrEndOfKhe" -> substituteTargetKvAtStartOrEndOfKhe(args[1], args[2], args[3], args[4], args[5])
      [] op = "UnglueEdgeEnds" -> UnglueEdgeEnds(args[1], args[2], args[3])
      [] op = "UnglueCorners" -> UnglueCorners(args[1], args[2], args[3], args[4], args[5], args[6])
      [] op = "UnglueFaceVertexUses" -> UnglueFaceVertexUses(args[1], args[2], args[3], args[4], args[5])
      [] op = "UnglueVertexUses" -> UnglueVertexUses(args[1], args[2], args[3], args[4])
      [] op = "unglueKeyVertices" -> unglueKeyVertices(args[1], args[2], args[3])
      [] op = "UncutKeyEdgesLoop" -> UncutKeyEdgesLoop(args[1], args[2], args[3], args[4])
      [] op = "uncutKeyEdges" -> uncutKeyEdges(args[1], args[2], args[3])
      [] op = "UncutKeyVerticesLoop" -> UncutKeyVerticesLoop(args[1], args[2], args[3], args[4])
      [] op = "uncutKeyVertices" -> uncutKeyVertices(args[1], args[2], args[3])
      [] op = "deleteCells" -> deleteCells(args[1], args[2], args[3], args[4])
      [] op = "SimplifyEdgesLoop" -> SimplifyEdgesLoop(args[1], args[2], args[3], args[4])
      [] op = "SimplifyVerticesLoop" -> SimplifyVerticesLoop(args[1], args[2], args[3], args[4], args[5])
      [] op = "simplify" -> simplify(args[1], args[2], args[3], args[4], args[5])
      [] op = "SoftDeleteEdges" -> SoftDeleteEdges(args[1], args[2], args[3], args[4])
      [] op = "SoftDeleteVertices" -> SoftDeleteVertices(args[1], args[2], args[3], args[4])
      [] op = "DestroyTopGroups" -> DestroyTopGroups(args[1], args[2])
      [] op = "ResidualPass" -> ResidualPass(args[1], args[2], args[3], args[4])
      [] op = "softDelete" -> softDelete(args[1], args[2], args[3], args[4], args[5])

\* ================================================================ Complex

\* Variants: a constructor that bumps the version at every depth, and a
\* destructor that emits at every depth.
OperationsCtorVersionAtEveryDepth(num, ver) == ver + 1

OperationsDtorEmitsAtEveryDepth(num) == TRUE

\* Operations::Operations : the version is bumped by the outermost scope only.
OperationsCtorVersion(num, ver) == IF num + 1 = 1 THEN ver + 1 ELSE ver

\* Operations::~Operations : the diff is emitted (and then cleared, together
\* with temporaryCellSet_) when the last scope in progress ends.
OperationsDtorEmits(num) == num - 1 = 0

\* ~Operations : the cells of the diff flagged BoundaryGeometryChanged.
cellsToUpdateGeometryFromBoundary(ns, diff) ==
    {x \in DOMAIN ns : IsCell(ns[x]) /\ <<x, BoundaryGeometryChanged>> \in diff.modified}

\* core::sort with the comparison c1->cellType() < c2->cellType(): any order
\* of the cells in which the cell type never decreases (cells of one type are
\* left in an order the sort does not specify).
RECURSIVE SortedByCellType(_, _)
SortedByCellType(ns, cells) ==
    IF cells = {} THEN {<<>>}
    ELSE UNION {{<<x>> \o s : s \in SortedByCellType(ns, cells \ {x})} :
                x \in {y \in cells : \A z \in cells : ~(cellType(ns[z].kind) < cellType(ns[y].kind))}}

DtorStep(step, cell) == [step |-> step, cell |-> cell]

\* ~Operations of the outermost scope: updateGeometryFromBoundary on the sorted
\* cells, finalizeConcat on the created key edges and key faces in order of
\* creation, then the emission of the diff. Each element is one order in which
\* the steps can be taken.
OperationsDtorSteps(ns, diff) ==
    LET created == SetToSeq({x \in diff.created \cap DOMAIN ns : ns[x].kind \in {KeyEdgeKind, KeyFaceKind}})
    IN  {[i \in 1..Len(s) |-> DtorStep("updateGeometryFromBoundary", s[i])]
            \o [i \in 1..Len(created) |-> DtorStep("finalizeConcat", created[i])]
            \o <<DtorStep("emit", NULL)>> :
         s \in SortedByCellType(ns, cellsToUpdateGeometryFromBoundary(ns, diff))}

\* Complex::find
find(ns, id) == IF id \in DOMAIN ns THEN id ELSE NULL

NoOp == [op |-> "none", arg |-> <<>>, res |-> <<>>, pre |-> <<>>]

\* The context an operation starts from.
Begin == Ctx(nodes, nextId, opDiff, temporaryCellSet)

\* The node events recorded in the diff of the scope in progress.
Pending(diff) == Cardinality(diff.created) + Len(diff.destroyed)

\* An operation can start on a complex with a root; the explored runs end at
\* version MaxVersion, and a scope in progress records at most MaxPending
\* node events before it must end.
CanOperate ==
    /\ nodes # <<>> /\ root # NULL
    /\ numOperationsInProgress = 0 => version < MaxVersion
    /\ numOperationsInProgress > 0 => Pending(opDiff) < MaxPending

\* One public operation: scope constructor, body (c2 is the context the body
\* ends with, res what it returns), scope destructor.
Commit(name, arg, c2, res) ==
    /\ c2.nextId <= MaxId + 1
    /\ nodes' = c2.nodes
    /\ nextId' = c2.nextId
    /\ version' = OperationsCtorVersion(numOperationsInProgress, version)
    /\ UNCHANGED <<root, numOperationsInProgress>>
    /\ IF OperationsDtorEmits(numOperationsInProgress + 1)
       THEN opDiff' = EmptyDiff /\ temporaryCellSet' = <<>> /\ numEmitted' = numEmitted + 1
       ELSE opDiff' = DiffOf(c2) /\ temporaryCellSet' = c2.tmp /\ numEmitted' = numEmitted
    /\ prev' = last
    /\ last' = [op |-> name, arg |-> arg, res |-> res, pre |-> nodes]

\* What an operation returns besides the context it ends with.
ResultOf(r) == [f \in (DOMAIN r) \ {"c"} |-> r[f]]

\* One public operation whose body returns the record r.
CommitCall(name, arg, r) == Commit(name, arg, r.c, ResultOf(r))

\* ------------------------------------------------------ initial complexes

RootId == 1

\* Complex::Complex : resetRoot() on an empty complex.
FreshCtx == createRootGroup(Ctx(<<>>, RootId, EmptyDiff, <<>>))

Fwd(e) == Halfedge(e, TRUE)

Bwd(e) == Halfedge(e, FALSE)

RECURSIVE CreateVertices(_, _, _)
CreateVertices(c, parentGroup, n) ==
    IF n = 0 THEN c ELSE CreateVertices(createKeyVertex(c, parentGroup, NULL), parentGroup, n - 1)

\* A square face: vertices 2..5, edges 6..9, face 10.
SquareCtx ==
    LET c1 == CreateVertices(FreshCtx, RootId, 4)
        c2 == createKeyOpenEdge(c1, 2, 3, RootId, NULL)
        c3 == createKeyOpenEdge(c2, 3, 4, RootId, NULL)
        c4 == createKeyOpenEdge(c3, 4, 5, RootId, NULL)
        c5 == createKeyOpenEdge(c4, 5, 2, RootId, NULL)
    IN  createKeyFace(c5, <<CycleOfHalfedges(<<Fwd(6), Fwd(7), Fwd(8), Fwd(9)>>)>>, RootId, NULL)

\* A face with three cycles: a loop edge 5 at vertex 2, a two-edge cycle
\* (6, 7) through vertices 3 and 4, and a Steiner vertex 8; face 9.
AnnulusCtx ==
    LET c1 == CreateVertices(FreshCtx, RootId, 3)
        c2 == createKeyOpenEdge(c1, 2, 2, RootId, NULL)
        c3 == createKeyOpenEdge(c2, 3, 4, RootId, NULL)
        c4 == createKeyOpenEdge(c3, 4, 3, RootId, NULL)
        c5 == createKeyVertex(c4, RootId, NULL)
    IN  createKeyFace(c5, <<CycleOfHalfedges(<<Fwd(5)>>), CycleOfHalfedges(<<Fwd(6), Fwd(7)>>), SteinerCycle(8)>>,
                      RootId, NULL)

\* Two faces 7 and 8 sharing edge 5: vertices 2, 3 and edges 4, 5, 6 from 2 to 3.
SharedEdgeCtx ==
    LET c1 == CreateVertices(FreshCtx, RootId, 2)
        c2 == createKeyOpenEdge(c1, 2, 3, RootId, NULL)
        c3 == createKeyOpenEdge(c2, 2, 3, RootId, NULL)
        c4 == createKeyOpenEdge(c3, 2, 3, RootId, NULL)
        c5 == createKeyFace(c4, <<CycleOfHalfedges(<<Fwd(4), Bwd(5)>>)>>, RootId, NULL)
    IN  createKeyFace(c5, <<CycleOfHalfedges(<<Fwd(5), Bwd(6)>>)>>, RootId, NULL)

\* A group 2 holding a closed edge 3 and its face 4; in the root, a chain of
\* two edges 8, 9 through vertices 5, 6, 7 and an isolated vertex 10.
MixedCtx ==
    LET c1 == createGroup(FreshCtx, RootId, NULL)
        c2 == createKeyClosedEdge(c1, 2, NULL)
        c3 == createKeyFace(c2, <<CycleOfHalfedges(<<Fwd(3)>>)>>, 2, NULL)
        c4 == CreateVertices(c3, RootId, 3)
        c5 == createKeyOpenEdge(c4, 5, 6, RootId, NULL)
        c6 == createKeyOpenEdge(c5, 6, 7, RootId, NULL)
    IN  createKeyVertex(c6, RootId, NULL)

\* Two open edges 6 (2 to 3) and 7 (4 to 5) that share no vertex and bound
\* no face.
FreeEdgesCtx ==
    LET c1 == CreateVertices(FreshCtx, RootId, 4)
        c2 == createKeyOpenEdge(c1, 2, 3, RootId, NULL)
    IN  createKeyOpenEdge(c2, 4, 5, RootId, NULL)

InbetweenKinds == {InbetweenVertexKind, InbetweenEdgeKind, InbetweenFaceKind}

\* The scene c with one more cell t, an inbetween cell with the key cell x in
\* its boundary: an inbetween vertex for a key vertex, an inbetween edge for a
\* key edge, together with the end vertices of the edge. atFront: t is the
\* first cell of the star of x, not the last.
WithInbetweenCell(c, x, atFront) ==
    LET t == c.nextId
        kind == IF c.nodes[x].kind = KeyVertexKind THEN InbetweenVertexKind ELSE InbetweenEdgeKind
        c1 == AddSeqToBoundary(createNodeAt_(c, kind, RootId, NULL), t, <<x>> \o c.nodes[x].boundary)
    IN  IF atFront
        THEN [c1 EXCEPT !.nodes = [@ EXCEPT ![x].star = <<t>> \o SelectSeq(@, LAMBDA y : y # t)]]
        ELSE c1

\* Key vertices 2 and 3, a loop edge 4 at vertex 2, an inbetween vertex 5
\* from vertex 2 to vertex 3 and an inbetween edge 6 bounded by it and by the
\* two key vertices.
InbetweenCtx ==
    LET c1 == createKeyOpenEdge(CreateVertices(FreshCtx, RootId, 2), 2, 2, RootId, NULL)
        c2 == AddSeqToBoundary(createNodeAt_(c1, InbetweenVertexKind, RootId, NULL), 5, <<2, 3>>)
    IN  AddSeqToBoundary(createNodeAt_(c2, InbetweenEdgeKind, RootId, NULL), 6,
                         <<5, 2, 3>>)

\* The complex at the given version, with no operation in progress.
InitFrom(c, ver) ==
    /\ nodes = c.nodes
    /\ root = RootId
    /\ nextId = c.nextId
    /\ version = ver
    /\ numOperationsInProgress = 0
    /\ opDiff = EmptyDiff
    /\ temporaryCellSet = <<>>
    /\ numEmitted = 0
    /\ last = NoOp
    /\ prev = NoOp

\* Complex::Complex : clear() and the scope of resetRoot() each bump the version.
FreshVersion == 2

\* A scene built by one ScopedOperationsGroup on a fresh complex.
SceneVersion == FreshVersion + 1

\* A scene built by two ScopedOperationsGroups (cells, then their faces).
LateSceneVersion == FreshVersion + 2

Scenes == {SquareCtx, AnnulusCtx, SharedEdgeCtx, MixedCtx}

Init ==
    \/ InitFrom(FreshCtx, FreshVersion)
    \/ \E c \in Scenes : InitFrom(c, LateSceneVersion)

\* ================================================================ actions

GroupsOf(ns) == {x \in DOMAIN ns : ns[x].kind = GroupKind}

VerticesOf(ns) == {x \in DOMAIN ns : ns[x].kind = KeyVertexKind}

EdgesOf(ns) == {x \in DOMAIN ns : ns[x].kind = KeyEdgeKind}

OpenEdgesOf(ns) == {x \in EdgesOf(ns) : ~EdgeIsClosed(ns, x)}

ClosedEdgesOf(ns) == {x \in EdgesOf(ns) : EdgeIsClosed(ns, x)}

FacesOf(ns) == {x \in DOMAIN ns : ns[x].kind = KeyFaceKind}

\* nextSibling is null or a child of parentGroup.
IsPlace(parentGroup, nextSibling) ==
    /\ parentGroup \in GroupsOf(nodes)
    /\ nextSibling = NULL \/ Contains(nodes[parentGroup].children, nextSibling)

CreateGroup(parentGroup, nextSibling) ==
    /\ CanOperate /\ IsPlace(parentGroup, nextSibling)
    /\ Commit("createGroup", [parentGroup |-> parentGroup, nextSibling |-> nextSibling],
              createGroup(Begin, parentGroup, nextSibling), nextId)

CreateKeyVertex(parentGroup, nextSibling) ==
    /\ CanOperate /\ IsPlace(parentGroup, nextSibling)
    /\ Commit("createKeyVertex", [parentGroup |-> parentGroup, nextSibling |-> nextSibling],
              createKeyVertex(Begin, parentGroup, nextSibling), nextId)

CreateKeyOpenEdge(startVertex, endVertex, parentGroup, nextSibling) ==
    /\ CanOperate /\ IsPlace(parentGroup, nextSibling)
    /\ {startVertex, endVertex} \subseteq VerticesOf(nodes)
    /\ Commit("createKeyOpenEdge", [startVertex |-> startVertex, endVertex |-> endVertex],
              createKeyOpenEdge(Begin, startVertex, endVertex, parentGroup, nextSibling), nextId)

CreateKeyClosedEdge(parentGroup, nextSibling) ==
    /\ CanOperate /\ IsPlace(parentGroup, nextSibling)
    /\ Commit("createKeyClosedEdge", [parentGroup |-> parentGroup, nextSibling |-> nextSibling],
              createKeyClosedEdge(Begin, parentGroup, nextSibling), nextId)

\* createKeyFace assumes that the cycles are valid.
CreateKeyFace(cycles, parentGroup, nextSibling) ==
    /\ CanOperate /\ IsPlace(parentGroup, nextSibling)
    /\ \A i \in 1..Len(cycles) : CycleIsValid(nodes, cycles[i])
    /\ Commit("createKeyFace", [cycles |-> cycles],
              createKeyFace(Begin, cycles, parentGroup, nextSibling), nextId)

HardDelete(node, deleteIsolatedVertices) ==
    /\ CanOperate /\ node \in DOMAIN nodes
    /\ Commit("hardDelete", [node |-> node, deleteIsolatedVertices |-> deleteIsolatedVertices],
              Call("hardDelete", <<Begin, root, node, deleteIsolatedVertices>>), <<>>)

SoftDelete(nodeSeq, drop, stale) ==
    /\ CanOperate /\ Range(nodeSeq) \subseteq DOMAIN nodes
    /\ CommitCall("softDelete", [nodes |-> nodeSeq],
                  Call("softDelete", <<Begin, root, nodeSeq, drop, stale>>))

GlueKeyVertices(kvs, moved) ==
    /\ CanOperate /\ Range(kvs) \subseteq VerticesOf(nodes)
    /\ CommitCall("glueKeyVertices", [kvs |-> kvs],
                  Call("glueKeyVertices", <<Begin, root, kvs, moved>>))

\* No two of the glued halfedges may refer to the same edge.
GlueKeyOpenEdges(kes, dirs, moved) ==
    /\ CanOperate /\ Range(kes) \subseteq OpenEdgesOf(nodes)
    /\ Cardinality(Range(kes)) = Len(kes)
    /\ CommitCall("glueKeyOpenEdges", [kes |-> kes],
                  Call("glueKeyOpenEdges", <<Begin, root, kes, dirs, moved>>))

GlueKeyClosedEdges(kes, dirs) ==
    /\ CanOperate /\ Range(kes) \subseteq ClosedEdgesOf(nodes)
    /\ Cardinality(Range(kes)) = Len(kes)
    /\ CommitCall("glueKeyClosedEdges", [kes |-> kes],
                  Call("glueKeyClosedEdges", <<Begin, root, kes, dirs>>))

UnglueKeyEdges(ke) ==
    /\ CanOperate /\ ke \in EdgesOf(nodes)
    /\ CommitCall("unglueKeyEdges", [ke |-> ke],
                  Call("unglueKeyEdges", <<Begin, root, ke>>))

UnglueKeyVertices(kv) ==
    /\ CanOperate /\ kv \in VerticesOf(nodes)
    /\ CommitCall("unglueKeyVertices", [kv |-> kv],
                  Call("unglueKeyVertices", <<Begin, root, kv>>))

CutEdge(ke) ==
    /\ CanOperate /\ ke \in EdgesOf(nodes)
    /\ CommitCall("cutEdge", [ke |-> ke],
                  Call("cutEdge", <<Begin, root, ke>>))

\* The vertex usages of kf that cutGlueFace(kf, ke) looks for must exist.
CutGlueFace(kf, ke, oneCycleCutPolicy, twoCycleCutPolicy, geo) ==
    /\ CanOperate /\ kf \in FacesOf(nodes) /\ ke \in EdgesOf(nodes)
    /\ ~EdgeIsClosed(nodes, ke) =>
          \A kv \in {nodes[ke].startVertex, nodes[ke].endVertex} :
              \E u \in VertexUsages(nodes, kf) : FaceVertex(nodes, kf, u) = kv
    /\ CommitCall("cutGlueFace", [kf |-> kf, ke |-> ke, oneCycleCutPolicy |-> oneCycleCutPolicy, twoCycleCutPolicy |-> twoCycleCutPolicy],
                  Call("cutGlueFace", <<Begin, root, kf, ke, oneCycleCutPolicy, twoCycleCutPolicy, geo>>))

CutFaceWithClosedEdge(kf, oneCycleCutPolicy, geo) ==
    /\ CanOperate /\ kf \in FacesOf(nodes)
    /\ CommitCall("cutFaceWithClosedEdge", [kf |-> kf, oneCycleCutPolicy |-> oneCycleCutPolicy],
                  Call("cutFaceWithClosedEdge", <<Begin, root, kf, oneCycleCutPolicy, geo>>))

CutFaceWithOpenEdge(kf, startIndex, endIndex, oneCycleCutPolicy, twoCycleCutPolicy, geo) ==
    /\ CanOperate /\ kf \in FacesOf(nodes)
    /\ {startIndex, endIndex} \subseteq VertexUsages(nodes, kf)
    /\ FaceVertex(nodes, kf, startIndex) # NULL /\ FaceVertex(nodes, kf, endIndex) # NULL
    /\ CommitCall("cutFaceWithOpenEdge",
                  [kf |-> kf, startIndex |-> startIndex, endIndex |-> endIndex,
                   oneCycleCutPolicy |-> oneCycleCutPolicy, twoCycleCutPolicy |-> twoCycleCutPolicy],
                  Call("cutFaceWithOpenEdge", <<Begin, root, kf, startIndex, endIndex, oneCycleCutPolicy, twoCycleCutPolicy, geo>>))

CutGlueFaceWithVertex(kf, kv) ==
    /\ CanOperate /\ kf \in FacesOf(nodes) /\ kv \in VerticesOf(nodes)
    /\ Commit("cutGlueFaceWithVertex", [kf |-> kf, kv |-> kv], Call("cutGlueFaceWithVertex", <<Begin, kf, kv>>), <<>>)

CutFaceWithVertex(kf) ==
    /\ CanOperate /\ kf \in FacesOf(nodes)
    /\ Commit("cutFaceWithVertex", [kf |-> kf], Call("cutFaceWithVertex", <<Begin, kf>>), nextId)

UncutAtKeyVertex(kv) ==
    /\ CanOperate /\ kv \in VerticesOf(nodes)
    /\ CommitCall("uncutAtKeyVertex", [kv |-> kv],
                  Call("uncutAtKeyVertex", <<Begin, root, kv>>))

UncutAtKeyEdge(ke) ==
    /\ CanOperate /\ ke \in EdgesOf(nodes)
    /\ CommitCall("uncutAtKeyEdge", [ke |-> ke],
                  Call("uncutAtKeyEdge", <<Begin, root, ke>>))

\* ops::simplify; the process does not go on after a fault.
Simplify(kvs, kes, nullDeref) ==
    /\ CanOperate
    /\ Range(kvs) \subseteq VerticesOf(nodes) /\ Range(kes) \subseteq EdgesOf(nodes)
    /\ CommitCall("simplify", [kvs |-> kvs, kes |-> kes],
                  Call("simplify", <<Begin, root, kvs, kes, nullDeref>>))

\* ScopedOperationsGroup::ScopedOperationsGroup
BeginGroup ==
    /\ numOperationsInProgress < MaxDepth
    /\ numOperationsInProgress = 0 => version < MaxVersion
    /\ numOperationsInProgress' = numOperationsInProgress + 1
    /\ version' = OperationsCtorVersion(numOperationsInProgress, version)
    /\ prev' = last
    /\ last' = [op |-> "beginGroup", arg |-> <<>>, res |-> <<>>, pre |-> nodes]
    /\ UNCHANGED <<nodes, root, nextId, opDiff, temporaryCellSet, numEmitted>>

\* ScopedOperationsGroup::~ScopedOperationsGroup
EndGroup ==
    /\ numOperationsInProgress > 0
    /\ numOperationsInProgress' = numOperationsInProgress - 1
    /\ IF OperationsDtorEmits(numOperationsInProgress)
       THEN opDiff' = EmptyDiff /\ temporaryCellSet' = <<>> /\ numEmitted' = numEmitted + 1
       ELSE UNCHANGED <<opDiff, temporaryCellSet, numEmitted>>
    /\ prev' = last
    /\ \E steps \in (IF OperationsDtorEmits(numOperationsInProgress)
                     THEN OperationsDtorSteps(nodes, opDiff) ELSE {<<>>}) :
          last' = [op |-> "endGroup", arg |-> <<>>, res |-> steps, pre |-> nodes]
    /\ UNCHANGED <<nodes, root, nextId, version>>

\* Complex::clear : every node is dropped and reported in a diff of its own.
Clear ==
    /\ version < MaxVersion
    /\ nodes' = <<>>
    /\ root' = NULL
    /\ version' = version + 1
    /\ numEmitted' = numEmitted + 1
    /\ prev' = last
    /\ last' = [op |-> "clear", arg |-> <<>>, res |-> <<>>, pre |-> nodes]
    /\ UNCHANGED <<nextId, numOperationsInProgress, opDiff, temporaryCellSet>>

\* Complex::resetRoot : clear(), then a scope that creates the root group.
ResetRoot ==
    LET c == createRootGroup(Ctx(<<>>, nextId, opDiff, temporaryCellSet))
    IN  /\ OperationsCtorVersion(numOperationsInProgress, version + 1) <= MaxVersion
        /\ c.nextId <= MaxId + 1
        /\ nodes' = c.nodes
        /\ root' = nextId
        /\ nextId' = c.nextId
        /\ version' = OperationsCtorVersion(numOperationsInProgress, version + 1)
        /\ IF OperationsDtorEmits(numOperationsInProgress + 1)
           THEN opDiff' = EmptyDiff /\ temporaryCellSet' = <<>> /\ numEmitted' = numEmitted + 2
           ELSE opDiff' = DiffOf(c) /\ temporaryCellSet' = c.tmp /\ numEmitted' = numEmitted + 1
        /\ prev' = last
        /\ last' = [op |-> "resetRoot", arg |-> <<>>, res |-> nextId, pre |-> nodes]
        /\ UNCHANGED numOperationsInProgress

\* ---------------------------------------------------------- listeners

\* What a nodesChanged listener does when a diff is delivered to it: nothing,
\* or, on the first delivery only, open a detail::Operations scope on the
\* same complex, empty or creating a group in the root.
Listeners == {"none", "emptyScope", "createGroup"}

\* The body of the scope that the listener opens.
ListenerBody(c, rootGroup, listener) ==
    IF listener = "createGroup" THEN createGroup(c, rootGroup, NULL) ELSE c

\* An emission that would clear opDiff_ before the listeners run.
EmitToListenerAfterClearing(c, rootGroup, ver, listener) ==
    IF listener = "none"
    THEN [c |-> c, version |-> ver, emitted |-> <<DiffOf(c)>>]
    ELSE LET c1 == [c EXCEPT !.created = {}, !.destroyed = <<>>, !.inserted = {}, !.modified = {}]
             c2 == ListenerBody(c1, rootGroup, listener)
         IN  [c |-> c2, version |-> OperationsCtorVersion(0, ver), emitted |-> <<DiffOf(c), DiffOf(c2)>>]

\* ~Operations of the outermost scope, from the emission on, with a listener
\* connected: numOperationsInProgress_ is 0 and opDiff_ still holds the diff
\* when the listener runs.  The scope of the listener is then an outermost
\* scope: its constructor bumps the version, its destructor emits opDiff_
\* (to the listener again, which does nothing this time) and clears it, and
\* the destructor that was emitting clears it again.
EmitToListener(c, rootGroup, ver, listener) ==
    IF listener = "none"
    THEN [c |-> c, version |-> ver, emitted |-> <<DiffOf(c)>>]
    ELSE LET c2 == ListenerBody(c, rootGroup, listener)
         IN  [c |-> c2, version |-> OperationsCtorVersion(0, ver), emitted |-> <<DiffOf(c), DiffOf(c2)>>]

\* One public operation with a listener connected to nodesChanged.
CommitObserved(name, arg, c2, res, listener) ==
    LET ver == OperationsCtorVersion(numOperationsInProgress, version)
        emits == OperationsDtorEmits(numOperationsInProgress + 1)
        e == IF emits THEN EmitToListener(c2, root, ver, listener)
             ELSE [c |-> c2, version |-> ver, emitted |-> <<>>]
    IN  /\ e.c.nextId <= MaxId + 1 /\ e.version <= MaxVersion
        /\ nodes' = e.c.nodes
        /\ nextId' = e.c.nextId
        /\ version' = e.version
        /\ UNCHANGED <<root, numOperationsInProgress>>
        /\ IF emits
           THEN opDiff' = EmptyDiff /\ temporaryCellSet' = <<>> /\ numEmitted' = numEmitted + Len(e.emitted)
           ELSE opDiff' = DiffOf(c2) /\ temporaryCellSet' = c2.tmp /\ numEmitted' = numEmitted
        /\ prev' = last
        /\ last' = [op |-> name, arg |-> [arg EXCEPT !.listener = listener],
                    res |-> [result |-> res, emitted |-> e.emitted, pending |-> DiffOf(c2)],
                    pre |-> nodes]

ObservedCreateKeyVertex(parentGroup, listener) ==
    /\ CanOperate /\ IsPlace(parentGroup, NULL)
    /\ CommitObserved("observedCreateKeyVertex", [parentGroup |-> parentGroup, listener |-> listener],
                      createKeyVertex(Begin, parentGroup, NULL), nextId, listener)

ObservedHardDelete(node, listener) ==
    /\ CanOperate /\ node \in DOMAIN nodes
    /\ CommitObserved("observedHardDelete", [node |-> node, listener |-> listener],
                      Call("hardDelete", <<Begin, root, node, FALSE>>), <<>>, listener)

\* ScopedOperationsGroup::~ScopedOperationsGroup with a listener connected.
ObservedEndGroup(listener) ==
    LET emits == OperationsDtorEmits(numOperationsInProgress)
        e == IF emits THEN EmitToListener(Begin, root, version, listener)
             ELSE [c |-> Begin, version |-> version, emitted |-> <<>>]
    IN  /\ numOperationsInProgress > 0
        /\ e.c.nextId <= MaxId + 1 /\ e.version <= MaxVersion
        /\ numOperationsInProgress' = numOperationsInProgress - 1
        /\ nodes' = e.c.nodes
        /\ nextId' = e.c.nextId
        /\ version' = e.version
        /\ IF emits
           THEN opDiff' = EmptyDiff /\ temporaryCellSet' = <<>> /\ numEmitted' = numEmitted + Len(e.emitted)
           ELSE UNCHANGED <<opDiff, temporaryCellSet, numEmitted>>
        /\ prev' = last
        /\ last' = [op |-> "observedEndGroup", arg |-> [listener |-> listener],
                    res |-> [result |-> <<>>, emitted |-> e.emitted, pending |-> opDiff],
                    pre |-> nodes]
        /\ UNCHANGED root

\* ------------------------------------------------- clear and its listeners

\* The complex as clear() and resetRoot() see it: the node map, the root
\* pointer, the id counter, the version, the scopes in progress with their
\* diff, and isBeingCleared_.  emitted lists the diffs delivered so far, seen
\* the node map at each delivery, resetRootResults what the calls of
\* resetRoot made by the listener returned.
ComplexOf(ns, rootGroup, nid, ver, num, diff, tmp) ==
    [nodes |-> ns, root |-> rootGroup, nextId |-> nid, version |-> ver, num |-> num, opDiff |-> diff, tmp |-> tmp,
     isBeingCleared |-> FALSE, emitted |-> <<>>, seen |-> <<>>, resetRootResults |-> <<>>]

\* What a listener does when the diff of clear() is delivered to it: nothing,
\* or, on the first delivery only, call resetRoot().
ClearListeners == {"none", "resetRoot"}

RECURSIVE clear(_, _)
RECURSIVE resetRoot(_)

\* A resetRoot that does not look at isBeingCleared_.
resetRootUnguarded(cx) ==
    LET c1 == clear(cx, "none")
        c == createRootGroup(Ctx(<<>>, c1.nextId, c1.opDiff, c1.tmp))
        emits == OperationsDtorEmits(c1.num + 1)
    IN  [cx |-> [c1 EXCEPT !.nodes = c.nodes, !.root = c1.nextId, !.nextId = c.nextId,
                           !.version = OperationsCtorVersion(c1.num, c1.version),
                           !.opDiff = IF emits THEN EmptyDiff ELSE DiffOf(c),
                           !.tmp = IF emits THEN <<>> ELSE c.tmp,
                           !.emitted = IF emits THEN Append(@, DiffOf(c)) ELSE @,
                           !.seen = IF emits THEN Append(@, c.nodes) ELSE @],
         result |-> c1.nextId]

\* Complex::resetRoot : nothing while the complex is being cleared; otherwise
\* clear(), then a scope that creates the root group.
resetRoot(cx) ==
    IF cx.isBeingCleared THEN [cx |-> cx, result |-> NULL]
    ELSE LET c1 == clear(cx, "none")
             c == createRootGroup(Ctx(<<>>, c1.nextId, c1.opDiff, c1.tmp))
             emits == OperationsDtorEmits(c1.num + 1)
         IN  [cx |-> [c1 EXCEPT !.nodes = c.nodes, !.root = c1.nextId, !.nextId = c.nextId,
                                !.version = OperationsCtorVersion(c1.num, c1.version),
                                !.opDiff = IF emits THEN EmptyDiff ELSE DiffOf(c),
                                !.tmp = IF emits THEN <<>> ELSE c.tmp,
                                !.emitted = IF emits THEN Append(@, DiffOf(c)) ELSE @,
                                !.seen = IF emits THEN Append(@, c.nodes) ELSE @],
              result |-> c1.nextId]

\* Complex::clear : the node map is emptied, a diff of its own reports every
\* node destroyed and is emitted while isBeingCleared_ is set; then the flag
\* is reset, the root pointer nulled and the version incremented.
clear(cx, listener) ==
    LET diff == [EmptyDiff EXCEPT !.destroyed = SetToSeq(DOMAIN cx.nodes)]
        cx1 == [cx EXCEPT !.isBeingCleared = TRUE, !.nodes = <<>>,
                          !.emitted = Append(@, diff), !.seen = Append(@, <<>>)]
        cx2 == IF listener = "resetRoot"
               THEN LET r == resetRoot(cx1) IN [r.cx EXCEPT !.resetRootResults = Append(@, r.result)]
               ELSE cx1
    IN  [cx2 EXCEPT !.isBeingCleared = FALSE, !.root = NULL, !.version = @ + 1]

\* Complex::clear with a listener connected to nodesChanged.
ObservedClear(listener) ==
    LET cx == clear(ComplexOf(nodes, root, nextId, version, numOperationsInProgress, opDiff, temporaryCellSet), listener)
    IN  /\ version < MaxVersion /\ cx.version <= MaxVersion /\ cx.nextId <= MaxId + 1
        /\ nodes' = cx.nodes
        /\ root' = cx.root
        /\ nextId' = cx.nextId
        /\ version' = cx.version
        /\ opDiff' = cx.opDiff
        /\ temporaryCellSet' = cx.tmp
        /\ numEmitted' = numEmitted + Len(cx.emitted)
        /\ prev' = last
        /\ last' = [op |-> "observedClear", arg |-> [listener |-> listener],
                    res |-> [emitted |-> cx.emitted, seen |-> cx.seen, resetRootResults |-> cx.resetRootResults,
                            numCreated |-> cx.nextId - nextId],
                    pre |-> nodes]
        /\ UNCHANGED numOperationsInProgress

\* ----------------------------------------------------------------- inputs

\* Insertion places: last child of a group, or before its first child.
Places ==
    {p \in GroupsOf(nodes) \X (DOMAIN nodes \cup {NULL}) :
        p[2] = NULL \/ (nodes[p[1]].children # <<>> /\ p[2] = nodes[p[1]].children[1])}

HalfedgesOf(ns, edges) == {Halfedge(e, d) : e \in edges, d \in BOOLEAN}

\* The valid cycles of at most MaxCycleLen halfedges, and the Steiner cycles.
CandidateCycles(ns) ==
    {SteinerCycle(v) : v \in VerticesOf(ns)} \cup
    UNION {{cy \in {CycleOfHalfedges(hs) : hs \in [1..k -> HalfedgesOf(ns, EdgesOf(ns))]} : CycleIsValid(ns, cy)} :
           k \in 1..MaxCycleLen}

AllDrops(ns) == UNION {{<<kf, i>> : i \in 1..Len(ns[kf].cycles)} : kf \in FacesOf(ns)}

NoGeo == [mobius |-> FALSE, twoCycle |-> ReverseNone, side |-> {}]

\* The policies and geometric outcomes that matter for a cut of kf from
\* usage startIndex to usage endIndex.
CutChoices(ns, kf, startIndex, endIndex) ==
    IF startIndex[1] = endIndex[1]
    THEN {<<Auto, Auto, [NoGeo EXCEPT !.mobius = m, !.side = sd]>> :
             m \in BOOLEAN, sd \in SUBSET ((1..Len(ns[kf].cycles)) \ {startIndex[1] + 1})}
         \cup {<<Disk, Auto, [NoGeo EXCEPT !.side = sd]>> :
             sd \in SUBSET ((1..Len(ns[kf].cycles)) \ {startIndex[1] + 1})}
         \cup {<<Mobius, Auto, NoGeo>>, <<Torus, Auto, NoGeo>>}
    ELSE {<<Auto, Auto, [NoGeo EXCEPT !.twoCycle = t]>> : t \in TwoCycleCutPolicy \ {Auto}}
         \cup {<<Auto, t, NoGeo>> : t \in TwoCycleCutPolicy \ {Auto}}

ClosedCutChoices(ns, kf) ==
    {<<p, [NoGeo EXCEPT !.side = sd]>> : p \in {Auto, Disk}, sd \in SUBSET (1..Len(ns[kf].cycles))}
    \cup {<<Mobius, NoGeo>>, <<Torus, NoGeo>>}

Pairs(S) == {p \in S \X S : p[1] < p[2]}

\* ---------------------------------------------------------- specification

CreateAnyFace == \E cy \in CandidateCycles(nodes), g \in GroupsOf(nodes) : CreateKeyFace(<<cy>>, g, NULL)

Create ==
    \/ \E p \in Places : CreateGroup(p[1], p[2])
    \/ \E p \in Places : CreateKeyVertex(p[1], p[2])
    \/ \E sv \in VerticesOf(nodes), ev \in VerticesOf(nodes), g \in GroupsOf(nodes) : CreateKeyOpenEdge(sv, ev, g, NULL)
    \/ \E p \in Places : CreateKeyClosedEdge(p[1], p[2])
    \/ CreateAnyFace

Delete ==
    \/ \E n \in DOMAIN nodes, iso \in BOOLEAN : HardDelete(n, iso)
    \/ \E n \in DOMAIN nodes, drop \in {{}, AllDrops(nodes)}, stale \in BOOLEAN : SoftDelete(<<n>>, drop, stale)

Glue ==
    \/ \E kv \in VerticesOf(nodes), moved \in BOOLEAN, twice \in BOOLEAN :
          GlueKeyVertices(IF twice THEN <<kv, kv>> ELSE <<kv>>, moved)
    \/ \E p \in Pairs(VerticesOf(nodes)), repeated \in BOOLEAN :
          GlueKeyVertices(IF repeated THEN <<p[1], p[2], p[1]>> ELSE p, FALSE)
    \/ \E p \in Pairs(OpenEdgesOf(nodes)), d \in BOOLEAN : GlueKeyOpenEdges(p, <<TRUE, d>>, FALSE)
    \/ \E p \in Pairs(ClosedEdgesOf(nodes)), d \in BOOLEAN : GlueKeyClosedEdges(p, <<TRUE, d>>)

Unglue ==
    \/ \E ke \in EdgesOf(nodes) : UnglueKeyEdges(ke)
    \/ \E kv \in VerticesOf(nodes) : UnglueKeyVertices(kv)

CutFace ==
    \/ \E kf \in FacesOf(nodes) : \E si \in VertexUsages(nodes, kf), ei \in VertexUsages(nodes, kf) :
          \E ch \in CutChoices(nodes, kf, si, ei) : CutFaceWithOpenEdge(kf, si, ei, ch[1], ch[2], ch[3])
    \/ \E kf \in FacesOf(nodes), ke \in OpenEdgesOf(nodes) :
          \E p1 \in OneCycleCutPolicy \ {Auto}, p2 \in TwoCycleCutPolicy \ {Auto} :
              CutGlueFace(kf, ke, p1, p2, NoGeo)
    \/ \E kf \in FacesOf(nodes), ke \in ClosedEdgesOf(nodes) :
          \E ch \in ClosedCutChoices(nodes, kf) : CutGlueFace(kf, ke, ch[1], Auto, ch[2])
    \/ \E kf \in FacesOf(nodes) : \E ch \in ClosedCutChoices(nodes, kf) : CutFaceWithClosedEdge(kf, ch[1], ch[2])
    \/ \E kf \in FacesOf(nodes), kv \in VerticesOf(nodes) : CutGlueFaceWithVertex(kf, kv)
    \/ \E kf \in FacesOf(nodes) : CutFaceWithVertex(kf)

Uncut ==
    \/ \E kv \in VerticesOf(nodes) : UncutAtKeyVertex(kv)
    \/ \E ke \in EdgesOf(nodes) : UncutAtKeyEdge(ke)

CutAnyEdge == \E ke \in EdgesOf(nodes) : CutEdge(ke)

Next ==
    \/ Create
    \/ Delete
    \/ Glue
    \/ Unglue
    \/ CutAnyEdge
    \/ CutFace
    \/ Uncut
    \/ Clear
    \/ ResetRoot

Spec == Init /\ [][Next]_vars

\* ------------------------------------------------ cuts and their inverses

\* A scene is given one more face or is cut once, then uncut at any vertex
\* or edge.
InitCut == \E c \in Scenes : InitFrom(c, SceneVersion)

CutOnce ==
    \/ last.op = "none" /\ CreateAnyFace
    \/ last.op = "none" /\ CutAnyEdge
    \/ last.op = "none" /\ CutFace

NextCut ==
    \/ CutOnce
    \/ Uncut

SpecCut == InitCut /\ [][NextCut]_vars

\* ------------------------------------------------------- face, then unglue

\* One face may be added to a scene before its edges and vertices are unglued.
NextUnglue ==
    \/ last.op = "none" /\ CreateAnyFace
    \/ Unglue

SpecUnglue == InitCut /\ [][NextUnglue]_vars

\* ------------------------------------------------------- glue, then unglue

\* Two open edges of a scene are glued, then edges and vertices are unglued.
InitGlue == \E c \in Scenes \cup {FreeEdgesCtx} : InitFrom(c, SceneVersion)

GlueOnce ==
    /\ last.op = "none"
    /\ \E p \in Pairs(OpenEdgesOf(nodes)), d \in BOOLEAN : GlueKeyOpenEdges(p, <<TRUE, d>>, FALSE)

NextGlue ==
    \/ GlueOnce
    \/ Unglue

SpecGlue == InitGlue /\ [][NextGlue]_vars

\* ------------------------------------------------------- nested scopes

\* Operations grouped in ScopedOperationsGroups, nested up to MaxDepth.
InitScoped == InitFrom(FreshCtx, FreshVersion)

NextScoped ==
    \/ BeginGroup
    \/ EndGroup
    \/ \E g \in GroupsOf(nodes) : CreateKeyVertex(g, NULL)
    \/ \E n \in DOMAIN nodes : HardDelete(n, FALSE)
    \/ Clear
    \/ ResetRoot

SpecScoped == InitScoped /\ [][NextScoped]_vars

\* --------------------------------------------------- scopes and listeners

\* Vertices are created and nodes are deleted, alone or in groups of
\* operations, with a listener connected to nodesChanged.
NextListener ==
    \/ BeginGroup
    \/ \E listener \in Listeners : ObservedEndGroup(listener)
    \/ \E g \in GroupsOf(nodes), listener \in Listeners : ObservedCreateKeyVertex(g, listener)
    \/ \E n \in DOMAIN nodes, listener \in Listeners : ObservedHardDelete(n, listener)

SpecListener == InitScoped /\ [][NextListener]_vars

\* -------------------------------------------------- clear and listeners

\* A scene or a fresh complex is edited, cleared with a listener connected,
\* and given a new root.
InitClear ==
    \/ InitFrom(FreshCtx, FreshVersion)
    \/ \E c \in Scenes : InitFrom(c, FreshVersion)

NextClear ==
    \/ \E listener \in ClearListeners : ObservedClear(listener)
    \/ ResetRoot
    \/ BeginGroup
    \/ EndGroup
    \/ \E g \in GroupsOf(nodes) : CreateKeyVertex(g, NULL)

SpecClear == InitClear /\ [][NextClear]_vars

\* ------------------------------------------------------------ hard deletes

\* Nodes of a scene, with or without inbetween cells, are hard-deleted one
\* after the other.
InitDelete == \E c \in Scenes \cup {InbetweenCtx} : InitFrom(c, FreshVersion)

NextDelete == \E n \in DOMAIN nodes, deleteIsolatedVertices \in BOOLEAN : HardDelete(n, deleteIsolatedVertices)

SpecDelete == InitDelete /\ [][NextDelete]_vars

\* ------------------------------------------------------ batches of uncuts

MaxBatch == 2

\* The lists of at most MaxBatch distinct cells of S.
Batches(S) == {<<>>} \cup {<<x>> : x \in S} \cup {<<p[1], p[2]>> : p \in {q \in S \X S : q[1] # q[2]}}

NullDerefOutcomes == {"fault", "read"}

Faulted == last.op = "simplify" /\ last.res.crashed

\* Vertices and edges of a scene are simplified in batches of at most
\* MaxBatch cells.
NextSimplify ==
    \E kvs \in Batches(VerticesOf(nodes)), kes \in Batches(EdgesOf(nodes)), nullDeref \in NullDerefOutcomes :
        ~Faulted /\ Len(kvs) + Len(kes) <= MaxBatch /\ Simplify(kvs, kes, nullDeref)

SpecSimplify == InitCut /\ [][NextSimplify]_vars

\* ------------------------------------------------- unglue, temporal star

\* One key vertex or key edge of a scene is in the boundary of an inbetween
\* cell; edges and vertices are unglued.
InitTemporal ==
    \E c \in Scenes, atFront \in BOOLEAN : \E x \in VerticesOf(c.nodes) \cup EdgesOf(c.nodes) :
        InitFrom(WithInbetweenCell(c, x, atFront), SceneVersion)

NextTemporal ==
    \/ \E ke \in EdgesOf(nodes) : UnglueKeyEdges(ke)
    \/ \E kv \in VerticesOf(nodes) : UnglueKeyVertices(kv)

SpecTemporal == InitTemporal /\ [][NextTemporal]_vars

\* ------------------------------------------- geometry at the end of a scope

\* In one group of operations on a scene, with or without an inbetween cell,
\* vertices are moved or glued, edges are glued and edges and faces created.
InitGeometry ==
    \/ \E c \in Scenes \cup {FreeEdgesCtx} : InitFrom(c, MaxVersion - 1)
    \/ \E c \in {SharedEdgeCtx, FreeEdgesCtx} : \E x \in VerticesOf(c.nodes) \cup EdgesOf(c.nodes) :
          InitFrom(WithInbetweenCell(c, x, FALSE), MaxVersion - 1)

\* A group is open and holds at most one operation so far.
InGroup == numOperationsInProgress > 0 /\ prev.op \in {"none", "beginGroup"}

NextGeometry ==
    \/ last.op = "none" /\ BeginGroup
    \/ EndGroup
    \/ InGroup /\ \E kv \in VerticesOf(nodes) : GlueKeyVertices(<<kv>>, TRUE)
    \/ InGroup /\ \E p \in Pairs(VerticesOf(nodes)) : GlueKeyVertices(p, FALSE)
    \/ InGroup /\ \E p \in Pairs(OpenEdgesOf(nodes)), d \in BOOLEAN : GlueKeyOpenEdges(p, <<TRUE, d>>, FALSE)
    \/ InGroup /\ \E sv \in VerticesOf(nodes), ev \in VerticesOf(nodes) : CreateKeyOpenEdge(sv, ev, root, NULL)
    \/ InGroup /\ CreateAnyFace

SpecGeometry == InitGeometry /\ [][NextGeometry]_vars

\* ------------------------------------------------- boundary calls in a scope

\* Operations::Operations(complex) : a null complex is rejected by a throw
\* before the counter is touched.
ConstructOperations(complexIsNull) ==
    /\ numOperationsInProgress = 0
    /\ IF complexIsNull
       THEN last.op # "Operations" /\ UNCHANGED <<numOperationsInProgress, version>>
       ELSE /\ version < MaxVersion
            /\ numOperationsInProgress' = numOperationsInProgress + 1
            /\ version' = OperationsCtorVersion(numOperationsInProgress, version)
    /\ prev' = last
    /\ last' = [op |-> "Operations", arg |-> [complexIsNull |-> complexIsNull],
                res |-> [threw |-> complexIsNull], pre |-> nodes]
    /\ UNCHANGED <<nodes, root, nextId, opDiff, temporaryCellSet, numEmitted>>

\* One call of addToBoundary_ or removeFromBoundary_ made by an operation in
\* progress; c2 is the context the call leaves when it does not throw.
BoundaryCall(name, boundedCell, boundingCell, c2) ==
    /\ numOperationsInProgress > 0
    /\ prev.op \notin {"addToBoundary_", "removeFromBoundary_"}
    /\ IF checkAddToBoundaryArgs_(boundedCell, boundingCell)
       THEN UNCHANGED <<nodes, opDiff>>
       ELSE nodes' = c2.nodes /\ opDiff' = DiffOf(c2)
    /\ prev' = last
    /\ last' = [op |-> name, arg |-> [boundedCell |-> boundedCell, boundingCell |-> boundingCell],
                res |-> [threw |-> checkAddToBoundaryArgs_(boundedCell, boundingCell)], pre |-> nodes]
    /\ UNCHANGED <<root, nextId, version, numOperationsInProgress, temporaryCellSet, numEmitted>>

AddToBoundary(boundedCell, boundingCell) ==
    BoundaryCall("addToBoundary_", boundedCell, boundingCell,
                 IF checkAddToBoundaryArgs_(boundedCell, boundingCell) THEN Begin
                 ELSE addToBoundary_(Begin, boundedCell, boundingCell))

RemoveFromBoundary(boundedCell, boundingCell) ==
    BoundaryCall("removeFromBoundary_", boundedCell, boundingCell,
                 IF checkAddToBoundaryArgs_(boundedCell, boundingCell) THEN Begin
                 ELSE removeFromBoundary_(Begin, boundedCell, boundingCell))

\* One scope on a scene, in which the operation in progress makes up to two
\* boundary calls in a row, null arguments included, on faces and edges as
\* bounded cells and on edges and vertices as bounding cells.
InitBoundary == \E c \in {SharedEdgeCtx, AnnulusCtx} : InitFrom(c, MaxVersion - 1)

BoundedCells == FacesOf(nodes) \cup EdgesOf(nodes) \cup {NULL}

BoundingCells == EdgesOf(nodes) \cup VerticesOf(nodes) \cup {NULL}

NextBoundary ==
    \/ \E complexIsNull \in BOOLEAN : ConstructOperations(complexIsNull)
    \/ \E b \in BoundedCells, c \in BoundingCells : AddToBoundary(b, c)
    \/ \E b \in BoundedCells, c \in BoundingCells : RemoveFromBoundary(b, c)
    \/ EndGroup

SpecBoundary == InitBoundary /\ [][NextBoundary]_vars

\* ================================================================= claims

\* The operation that ran last, on the nodes last.pre, with what it returned.
LastWas(op) == last.op = op

\* ------------------------------------------------------------- uncut cases

\* How many of the two ends of edge e are at vertex kv.
EndUses(ns, kv, e) ==
    (IF ns[e].startVertex = kv THEN 1 ELSE 0) + (IF ns[e].endVertex = kv THEN 1 ELSE 0)

IncidentEdges(ns, kv) == {e \in OpenEdgesOf(ns) : EndUses(ns, kv, e) > 0}

\* How many cycles of face f are the Steiner vertex kv.
SteinerUses(ns, kv, f) == Cardinality({i \in 1..Len(ns[f].cycles) : ns[f].cycles[i].steinerVertex = kv})

SteinerFaces(ns, kv) == {f \in FacesOf(ns) : SteinerUses(ns, kv, f) > 0}

\* The three cases documented for ops::uncutAtKeyVertex.
TwoEdgesCase(ns, kv) ==
    /\ Cardinality(IncidentEdges(ns, kv)) = 2
    /\ \A e \in IncidentEdges(ns, kv) : EndUses(ns, kv, e) = 1

LoopEdgeCase(ns, kv) ==
    /\ Cardinality(IncidentEdges(ns, kv)) = 1
    /\ \A e \in IncidentEdges(ns, kv) : EndUses(ns, kv, e) = 2

SteinerCase(ns, kv) ==
    /\ IncidentEdges(ns, kv) = {}
    /\ Cardinality(SteinerFaces(ns, kv)) = 1
    /\ \A f \in SteinerFaces(ns, kv) : SteinerUses(ns, kv, f) = 1

DocumentedVertexCase(ns, kv) == TwoEdgesCase(ns, kv) \/ LoopEdgeCase(ns, kv) \/ SteinerCase(ns, kv)

\* C11: uncutAtKeyVertex(kv) succeeds if and only if kv is in one of the
\* three documented cases (two incident open edges each using kv once; one
\* incident open edge using kv as start and end; no incident edge and one
\* face using kv once as a Steiner vertex), and fails in every other case.
C11_SuccessIffDocumentedCase ==
    LastWas("uncutAtKeyVertex") =>
        (last.res.success <=> DocumentedVertexCase(last.pre, last.arg.kv))

\* uncutAtKeyVertex has just failed at a vertex whose only usages are one
\* end of each of two open edges.
C11_RefusedTwoEdgesCase ==
    /\ LastWas("uncutAtKeyVertex")
    /\ ~last.res.success
    /\ TwoEdgesCase(last.pre, last.arg.kv)
    /\ SteinerFaces(last.pre, last.arg.kv) = {}

\* The face-cycle halfedge slots that use edge ke: <<face, cycle, position>>.
EdgeSlots(ns, ke) ==
    {t \in UNION {UNION {{<<f, i, j>> : j \in 1..Len(ns[f].cycles[i].halfedges)} :
                         i \in 1..Len(ns[f].cycles)} : f \in FacesOf(ns)} :
        ns[t[1]].cycles[t[2]].halfedges[t[3]].edge = ke}

\* C12: uncutAtKeyEdge(ke) succeeds if and only if ke is used in exactly two
\* face-cycle halfedge slots in total; with zero, one, three or more usages
\* it returns failure.
C12_SuccessIffTwoSlots ==
    LastWas("uncutAtKeyEdge") =>
        (last.res.success <=> Cardinality(EdgeSlots(last.pre, last.arg.ke)) = 2)

\* uncutAtKeyEdge has just succeeded on an edge used twice by one face.
C12_UncutTwoSlotsOfOneFace ==
    /\ LastWas("uncutAtKeyEdge")
    /\ last.res.success
    /\ Cardinality({t[1] : t \in EdgeSlots(last.pre, last.arg.ke)}) = 1

\* ------------------------------------------------------ failure is a no-op

UncutOps == {"uncutAtKeyVertex", "uncutAtKeyEdge"}

\* C13: when uncutAtKeyVertex or uncutAtKeyEdge returns failure, nothing
\* happens: the set of nodes, every boundary and star, every edge's end
\* vertices and every face's cycles are what they were before the call.
C13_FailureChangesNothing ==
    (last.op \in UncutOps /\ ~last.res.success) => nodes = last.pre

\* An uncut has just failed on a target that is still in the complex.
C13_FailedUncut ==
    /\ last.op \in UncutOps
    /\ ~last.res.success
    /\ (IF LastWas("uncutAtKeyVertex") THEN last.arg.kv ELSE last.arg.ke) \in DOMAIN nodes

\* ------------------------------------------------- success deletes target

UncutTarget == IF LastWas("uncutAtKeyVertex") THEN last.arg.kv ELSE last.arg.ke

\* Cell x is referenced by a cycle of face f.
InSomeCycle(ns, f, x) ==
    \E i \in 1..Len(ns[f].cycles) :
        \/ ns[f].cycles[i].steinerVertex = x
        \/ \E j \in 1..Len(ns[f].cycles[i].halfedges) : ns[f].cycles[i].halfedges[j].edge = x

\* C14: when uncutAtKeyVertex or uncutAtKeyEdge returns success, the star of
\* the target was empty when it was destroyed, and the target is no longer in
\* the complex nor in the boundary or a cycle of any remaining cell.
C14_SuccessLeavesNoTrace ==
    (last.op \in UncutOps /\ last.res.success) =>
        /\ last.res.starEmpty
        /\ UncutTarget \notin DOMAIN nodes
        /\ \A n \in DOMAIN nodes :
              /\ ~Contains(nodes[n].boundary, UncutTarget)
              /\ nodes[n].startVertex # UncutTarget /\ nodes[n].endVertex # UncutTarget
              /\ ~InSomeCycle(nodes, n, UncutTarget)

\* An uncut has just succeeded on a target that faces referenced.
C14_SucceededUncut ==
    /\ last.op \in UncutOps
    /\ last.res.success
    /\ \E f \in FacesOf(last.pre) : InSomeCycle(last.pre, f, UncutTarget)

\* ------------------------------------------------------ loop edge becomes closed

\* The open edge of ns that starts and ends at kv.
LoopEdgeAt(ns, kv) == CHOOSE e \in IncidentEdges(ns, kv) : TRUE

\* Cycle cy with every halfedge of edge e re-pointed to edge ne, same direction.
CycleWithEdgeReplaced(cy, e, ne) ==
    [cy EXCEPT !.halfedges =
        [j \in 1..Len(cy.halfedges) |->
            IF cy.halfedges[j].edge = e THEN [cy.halfedges[j] EXCEPT !.edge = ne] ELSE cy.halfedges[j]]]

\* C15: for an open edge e that starts and ends at vertex V, V having no
\* other usage, uncutAtKeyVertex(V) succeeds, destroys V and e, and leaves one
\* closed edge (no start or end vertex, empty boundary) that replaces e in
\* every face cycle that used e, V being removed from those faces' boundary.
C15_LoopEdgeBecomesClosed ==
    (/\ LastWas("uncutAtKeyVertex")
     /\ last.arg.kv \in VerticesOf(last.pre)
     /\ LoopEdgeCase(last.pre, last.arg.kv)
     /\ SteinerFaces(last.pre, last.arg.kv) = {}) =>
        /\ last.res.success
        /\ last.arg.kv \notin DOMAIN nodes
        /\ LoopEdgeAt(last.pre, last.arg.kv) \notin DOMAIN nodes
        /\ last.res.resultKe \in EdgesOf(nodes)
        /\ last.res.resultKe \notin DOMAIN last.pre
        /\ nodes[last.res.resultKe].startVertex = NULL
        /\ nodes[last.res.resultKe].endVertex = NULL
        /\ nodes[last.res.resultKe].boundary = <<>>
        /\ \A f \in FacesOf(last.pre) :
              InSomeCycle(last.pre, f, LoopEdgeAt(last.pre, last.arg.kv)) =>
                 /\ f \in DOMAIN nodes
                 /\ nodes[f].cycles =
                       [i \in 1..Len(last.pre[f].cycles) |->
                           CycleWithEdgeReplaced(last.pre[f].cycles[i],
                               LoopEdgeAt(last.pre, last.arg.kv), last.res.resultKe)]
                 /\ ~Contains(nodes[f].boundary, last.arg.kv)
                 /\ Contains(nodes[f].boundary, last.res.resultKe)

\* uncutAtKeyVertex has just refused the vertex of a loop edge that has no
\* other usage: a face cycle traverses the loop edge in both directions.
C15_RefusedLoopEdge ==
    /\ LastWas("uncutAtKeyVertex")
    /\ last.arg.kv \in VerticesOf(last.pre)
    /\ LoopEdgeCase(last.pre, last.arg.kv)
    /\ SteinerFaces(last.pre, last.arg.kv) = {}
    /\ ~last.res.success

\* ------------------------------------------------------------ glue vertices

GluedInputs == Range(last.arg.kvs)

\* Vertex v after the glue: the inputs become the resulting vertex.
GluedVertex(v) == IF v \in GluedInputs THEN last.res.result ELSE v

\* C16: glueKeyVertices on two or more distinct key vertices yields exactly
\* one resulting vertex: every cell that had an input vertex in its boundary,
\* as end vertex or Steiner vertex references only the new vertex afterwards,
\* no input vertex remains in the complex, and no other cell is destroyed (an
\* edge between two glued vertices survives as a loop).
C16_GlueYieldsOneVertex ==
    (LastWas("glueKeyVertices") /\ Cardinality(GluedInputs) >= 2) =>
        /\ last.res.result \in VerticesOf(nodes)
        /\ last.res.result \notin DOMAIN last.pre
        /\ DOMAIN nodes = ((DOMAIN last.pre) \ GluedInputs) \cup {last.res.result}
        /\ \A n \in (DOMAIN last.pre) \ GluedInputs :
              /\ nodes[n].kind = last.pre[n].kind
              /\ nodes[n].startVertex = GluedVertex(last.pre[n].startVertex)
              /\ nodes[n].endVertex = GluedVertex(last.pre[n].endVertex)
              /\ Range(nodes[n].boundary) = {GluedVertex(b) : b \in Range(last.pre[n].boundary)}
              /\ Len(nodes[n].cycles) = Len(last.pre[n].cycles)
              /\ \A i \in 1..Len(nodes[n].cycles) :
                    /\ nodes[n].cycles[i].steinerVertex = GluedVertex(last.pre[n].cycles[i].steinerVertex)
                    /\ nodes[n].cycles[i].halfedges = last.pre[n].cycles[i].halfedges
        /\ Range(nodes[last.res.result].star) =
              UNION {Range(last.pre[kv].star) : kv \in GluedInputs}

\* Two distinct vertices joined by an edge have just been glued.
C16_GluedEndsOfAnEdge ==
    /\ LastWas("glueKeyVertices")
    /\ Cardinality(GluedInputs) >= 2
    /\ \E e \in OpenEdgesOf(last.pre) :
          /\ last.pre[e].startVertex # last.pre[e].endVertex
          /\ {last.pre[e].startVertex, last.pre[e].endVertex} \subseteq GluedInputs
          /\ e \in DOMAIN nodes
          /\ nodes[e].startVertex = nodes[e].endVertex

\* C17 (as stated): for every non-empty input, glueKeyVertices returns a
\* single newly created vertex that takes over all usages of the inputs, and
\* every input vertex is hard-deleted.
C17_AlwaysNewVertex ==
    LastWas("glueKeyVertices") =>
        /\ last.res.result \in VerticesOf(nodes)
        /\ last.res.result \notin DOMAIN last.pre
        /\ GluedInputs \cap DOMAIN nodes = {}
        /\ Range(nodes[last.res.result].star) =
              UNION {Range(last.pre[kv].star) : kv \in GluedInputs}

\* C17 (amended): for every input holding at least two distinct vertices
\* (repeats allowed), glueKeyVertices returns a single newly created vertex
\* that takes over all usages of the inputs, and every input vertex is
\* hard-deleted; when all inputs are the same vertex (N = 1 included) it
\* returns that vertex itself, creating and deleting nothing.
C17_NewVertexIffDistinctInputs ==
    LastWas("glueKeyVertices") =>
        IF Cardinality(GluedInputs) >= 2
        THEN /\ last.res.result \in VerticesOf(nodes)
             /\ last.res.result \notin DOMAIN last.pre
             /\ GluedInputs \cap DOMAIN nodes = {}
             /\ Range(nodes[last.res.result].star) =
                   UNION {Range(last.pre[kv].star) : kv \in GluedInputs}
        ELSE /\ last.res.result = last.arg.kvs[1]
             /\ nodes = last.pre

\* A glue whose inputs are all the same vertex, used by other cells, has
\* just returned that vertex.
C17_GluedSameVertex ==
    /\ LastWas("glueKeyVertices")
    /\ Cardinality(GluedInputs) = 1
    /\ last.pre[last.arg.kvs[1]].star # <<>>
    /\ last.res.result = last.arg.kvs[1]

\* --------------------------------------------------------- glue open edges

GluedEdges == Range(last.arg.kes)

\* The start and the end vertices of the directed input edges.
GluedStarts == {HStart(last.pre, last.res.khs[i]) : i \in 1..Len(last.res.khs)}

GluedEnds == {HEnd(last.pre, last.res.khs[i]) : i \in 1..Len(last.res.khs)}

\* Vertex v is the glue of the vertices vs: the vertex itself when vs is a
\* single vertex, else a new vertex that replaced them all.
IsGlueOf(vs, v) ==
    IF Cardinality(vs) = 1 THEN v \in vs
    ELSE v \notin DOMAIN last.pre /\ vs \cap DOMAIN nodes = {}

\* C18: glueKeyOpenEdges on N >= 2 distinct open edges returns one new open
\* edge: every face-cycle halfedge that referenced an input edge references
\* the new edge afterwards, all input edges are destroyed, and the start (end)
\* vertex of the new edge is the glue of the start (end) vertices of the
\* directed inputs, the two collapsing into a single vertex (a loop) when the
\* glued start vertex is also an end vertex of an input.
C18_GlueYieldsOneOpenEdge ==
    (LastWas("glueKeyOpenEdges") /\ Len(last.arg.kes) >= 2) =>
        /\ last.res.result \in OpenEdgesOf(nodes)
        /\ last.res.result \notin DOMAIN last.pre
        /\ GluedEdges \cap DOMAIN nodes = {}
        /\ {last.res.khs[i].edge : i \in 1..Len(last.res.khs)} = GluedEdges
        /\ \A f \in FacesOf(last.pre) :
              /\ f \in DOMAIN nodes
              /\ Len(nodes[f].cycles) = Len(last.pre[f].cycles)
              /\ \A i \in 1..Len(nodes[f].cycles) :
                    /\ Len(nodes[f].cycles[i].halfedges) = Len(last.pre[f].cycles[i].halfedges)
                    /\ \A j \in 1..Len(nodes[f].cycles[i].halfedges) :
                          nodes[f].cycles[i].halfedges[j].edge =
                              IF last.pre[f].cycles[i].halfedges[j].edge \in GluedEdges
                              THEN last.res.result
                              ELSE last.pre[f].cycles[i].halfedges[j].edge
        /\ IF GluedStarts \cap GluedEnds # {}
           THEN /\ nodes[last.res.result].startVertex = nodes[last.res.result].endVertex
                /\ IsGlueOf(GluedStarts \cup GluedEnds, nodes[last.res.result].startVertex)
           ELSE /\ nodes[last.res.result].startVertex # nodes[last.res.result].endVertex
                /\ IsGlueOf(GluedStarts, nodes[last.res.result].startVertex)
                /\ IsGlueOf(GluedEnds, nodes[last.res.result].endVertex)

\* Two open edges used by a face have just been glued into a loop.
C18_GluedIntoLoop ==
    /\ LastWas("glueKeyOpenEdges")
    /\ Len(last.arg.kes) >= 2
    /\ GluedStarts \cap GluedEnds # {}
    /\ Cardinality(GluedStarts \cup GluedEnds) >= 2
    /\ \E f \in FacesOf(last.pre) : \E e \in GluedEdges : InSomeCycle(last.pre, f, e)

\* -------------------------------------------------------------- unglue edge

\* The cycles <<face, cycle>> that use edge ke.
EdgeCycles(ns, ke) == {<<t[1], t[2]>> : t \in EdgeSlots(ns, ke)}

\* When the edge is used at most once nothing changes and it is returned.
UnglueEdgeNoOp ==
    Cardinality(EdgeSlots(last.pre, last.arg.ke)) <= 1 =>
        nodes = last.pre /\ last.res.result = <<last.arg.ke>>

\* C19 (as stated): unglueKeyEdges(ke) on an edge used k >= 2 times creates
\* k - 1 duplicates, substitutes each duplicate into exactly one cycle slot,
\* and keeps the original edge alive with exactly one slot still referencing
\* it; on an edge used at most once it changes nothing and returns the edge.
C19_KeepsOriginalEdge ==
    LastWas("unglueKeyEdges") =>
        /\ UnglueEdgeNoOp
        /\ Cardinality(EdgeSlots(last.pre, last.arg.ke)) >= 2 =>
              /\ last.arg.ke \in DOMAIN nodes
              /\ Cardinality(EdgeSlots(nodes, last.arg.ke)) = 1
              /\ Cardinality((DOMAIN nodes) \ DOMAIN last.pre) = Cardinality(EdgeSlots(last.pre, last.arg.ke)) - 1
              /\ \A d \in (DOMAIN nodes) \ DOMAIN last.pre : Cardinality(EdgeSlots(nodes, d)) = 1

\* C19 (amended): unglueKeyEdges(ke) on an edge used k >= 2 times creates one
\* duplicate per usage (per cycle slot of an open edge, per cycle of a closed
\* edge), substitutes each duplicate into exactly one usage, and hard-deletes
\* the original edge; on an edge used at most once it changes nothing and
\* returns the same edge.
C19_DuplicatesEveryUse ==
    LastWas("unglueKeyEdges") =>
        /\ UnglueEdgeNoOp
        /\ Cardinality(EdgeSlots(last.pre, last.arg.ke)) >= 2 =>
              /\ last.arg.ke \notin DOMAIN nodes
              /\ Range(last.res.result) = (DOMAIN nodes) \ DOMAIN last.pre
              /\ Len(last.res.result) = Cardinality(Range(last.res.result))
              /\ Len(last.res.result) =
                    IF EdgeIsClosed(last.pre, last.arg.ke)
                    THEN Cardinality(EdgeCycles(last.pre, last.arg.ke))
                    ELSE Cardinality(EdgeSlots(last.pre, last.arg.ke))
              /\ \A d \in Range(last.res.result) :
                    /\ d \in EdgesOf(nodes)
                    /\ nodes[d].startVertex = last.pre[last.arg.ke].startVertex
                    /\ nodes[d].endVertex = last.pre[last.arg.ke].endVertex
                    /\ IF EdgeIsClosed(last.pre, last.arg.ke)
                       THEN Cardinality(EdgeCycles(nodes, d)) = 1
                       ELSE Cardinality(EdgeSlots(nodes, d)) = 1
              /\ \A f \in FacesOf(last.pre) :
                    /\ f \in DOMAIN nodes
                    /\ Len(nodes[f].cycles) = Len(last.pre[f].cycles)
                    /\ \A i \in 1..Len(nodes[f].cycles) :
                          /\ nodes[f].cycles[i].steinerVertex = last.pre[f].cycles[i].steinerVertex
                          /\ Len(nodes[f].cycles[i].halfedges) = Len(last.pre[f].cycles[i].halfedges)
                          /\ \A j \in 1..Len(nodes[f].cycles[i].halfedges) :
                                /\ nodes[f].cycles[i].halfedges[j].direction =
                                      last.pre[f].cycles[i].halfedges[j].direction
                                /\ IF last.pre[f].cycles[i].halfedges[j].edge = last.arg.ke
                                   THEN nodes[f].cycles[i].halfedges[j].edge \in Range(last.res.result)
                                   ELSE nodes[f].cycles[i].halfedges[j].edge =
                                            last.pre[f].cycles[i].halfedges[j].edge

\* An edge that two faces used has just been unglued.
C19_UngluedSharedEdge ==
    /\ LastWas("unglueKeyEdges")
    /\ Cardinality({t[1] : t \in EdgeSlots(last.pre, last.arg.ke)}) >= 2
    /\ Len(last.res.result) >= 2

\* ------------------------------------------------------------ unglue vertex

UnglueVertexNoOp ==
    countUsesOfKeyVertex_(last.pre, last.arg.kv) <= 1 =>
        nodes = last.pre /\ last.res.result = <<last.arg.kv>>

\* The edges of ns that start or end at one of the vertices kvs.
EdgesAt(ns, kvs) == {e \in EdgesOf(ns) : ns[e].startVertex \in kvs \/ ns[e].endVertex \in kvs}

\* C20 (as stated): unglueKeyVertices(kv) on a vertex with two or more usages
\* first unglues every incident edge, then duplicates the vertex once per
\* extra usage, always keeping exactly one usage on the original vertex,
\* which stays in the complex.
C20_KeepsOriginalVertex ==
    (LastWas("unglueKeyVertices") /\ countUsesOfKeyVertex_(last.pre, last.arg.kv) >= 2) =>
        /\ last.arg.kv \in DOMAIN nodes
        /\ countUsesOfKeyVertex_(nodes, last.arg.kv) = 1
        /\ Cardinality(VerticesOf(nodes) \ DOMAIN last.pre) = countUsesOfKeyVertex_(last.pre, last.arg.kv) - 1
        /\ \A e \in EdgesAt(nodes, {last.arg.kv} \cup (VerticesOf(nodes) \ DOMAIN last.pre)) :
              Cardinality(EdgeSlots(nodes, e)) <= 1

\* C20 (amended): unglueKeyVertices(kv) on a vertex with two or more usages
\* first unglues every incident edge, then duplicates the vertex once per
\* usage (edge-endpoint slot or face corner), each duplicate taking exactly
\* one usage, and hard-deletes the original vertex; on a vertex used at most
\* once it changes nothing and returns the same vertex.
C20_DuplicatesEveryUse ==
    LastWas("unglueKeyVertices") =>
        /\ UnglueVertexNoOp
        /\ countUsesOfKeyVertex_(last.pre, last.arg.kv) >= 2 =>
              /\ last.arg.kv \notin DOMAIN nodes
              /\ Range(last.res.result) = VerticesOf(nodes) \ DOMAIN last.pre
              /\ Len(last.res.result) = Cardinality(Range(last.res.result))
              /\ Len(last.res.result) = countUsesOfKeyVertex_(last.pre, last.arg.kv)
              /\ \A d \in Range(last.res.result) : countUsesOfKeyVertex_(nodes, d) = 1
              /\ \A e \in EdgesAt(nodes, Range(last.res.result)) : Cardinality(EdgeSlots(nodes, e)) <= 1
              /\ \A e \in EdgesAt(last.pre, {last.arg.kv}) :
                    Cardinality(EdgeSlots(last.pre, e)) >= 2 => e \notin DOMAIN nodes

\* A vertex whose incident edge was shared by two faces has just been unglued.
C20_UngluedVertexOfSharedEdge ==
    /\ LastWas("unglueKeyVertices")
    /\ Len(last.res.result) >= 2
    /\ \E e \in EdgesAt(last.pre, {last.arg.kv}) : Cardinality(EdgeSlots(last.pre, e)) >= 2

\* ------------------------------------------------------- boundary and star

\* C1: after any completed outermost operation, for all cells A and B of the
\* complex, A is in the boundary of B if and only if B is in the star of A.
C1_BoundaryStarSymmetry ==
    numOperationsInProgress = 0 =>
        \A a \in DOMAIN nodes, b \in DOMAIN nodes :
            Contains(nodes[b].boundary, a) <=> Contains(nodes[a].star, b)

\* An operation that rewrote boundaries has completed: a cell of the previous
\* complex has another boundary now.
C1_BoundaryRewritten ==
    /\ numOperationsInProgress = 0
    /\ last.op \in {"glueKeyVertices", "glueKeyOpenEdges", "unglueKeyVertices", "cutEdge", "uncutAtKeyVertex", "softDelete"}
    /\ \E n \in (DOMAIN nodes) \cap DOMAIN last.pre : Range(nodes[n].boundary) # Range(last.pre[n].boundary)

\* --------------------------------------------------------------- cycles

\* Cycle cy is a single Steiner vertex, or a closed walk of halfedges.
IsSteinerOrClosedWalk(ns, cy) ==
    IF cy.steinerVertex # NULL THEN cy.halfedges = <<>>
    ELSE /\ cy.halfedges # <<>>
         /\ \A i \in 1..Len(cy.halfedges) :
               /\ cy.halfedges[i].edge \in EdgesOf(ns)
               /\ HEnd(ns, cy.halfedges[i]) = HStart(ns, cy.halfedges[(i % Len(cy.halfedges)) + 1])

\* C2: after any completed operation every cycle of every key face of the
\* complex is either a single Steiner vertex or a closed walk: the end vertex
\* of each halfedge is the start vertex of the next one, cyclically.
C2_CyclesAreClosedWalks ==
    \A f \in FacesOf(nodes) : \A i \in 1..Len(nodes[f].cycles) : IsSteinerOrClosedWalk(nodes, nodes[f].cycles[i])

\* An operation has just rewritten the cycles of a face that is still there.
C2_CyclesRewritten ==
    /\ last.op \in {"cutEdge", "cutFaceWithOpenEdge", "cutGlueFace", "uncutAtKeyVertex",
                    "glueKeyOpenEdges", "unglueKeyVertices", "softDelete"}
    /\ \E f \in FacesOf(nodes) \cap FacesOf(last.pre) :
          /\ nodes[f].cycles # last.pre[f].cycles
          /\ \E i \in 1..Len(nodes[f].cycles) : Len(nodes[f].cycles[i].halfedges) >= 2

\* ------------------------------------------------------------ nested scopes

\* The steps in which an Operations scope ends: the end of a group, or an
\* operation, whose own scope opens and closes within the step.
ScopeEnds == last'.op \notin {"beginGroup", "clear", "resetRoot"}

\* The scope that ends in this step is the outermost one.
OutermostEnds == numOperationsInProgress' = 0

\* C3: whatever the nesting depth, the end of an inner scope emits no
\* ComplexDiff and the end of the outermost scope emits exactly one; opening
\* a scope emits none.
C3_OneDiffAtOutermostEnd ==
    [][/\ ScopeEnds => numEmitted' = numEmitted + (IF OutermostEnds THEN 1 ELSE 0)
       /\ last'.op = "beginGroup" => numEmitted' = numEmitted]_vars

\* An outermost group has ended right after a group nested in it ended, and
\* one diff has been emitted since the complex was built.
C3_NestedGroupsEnded ==
    /\ last.op = "endGroup" /\ prev.op = "endGroup"
    /\ numOperationsInProgress = 0
    /\ numEmitted = 1

\* C4: version() never decreases; a step that opens an outermost scope adds
\* exactly one, opening or closing a nested scope leaves it unchanged, and
\* clear() adds one (resetRoot is a clear() followed by a scope).
C4_VersionPerOutermostScope ==
    [][LET opened == IF numOperationsInProgress = 0 THEN 1 ELSE 0
       IN  /\ version' >= version
           /\ last'.op = "endGroup" => version' = version
           /\ last'.op = "clear" => version' = version + 1
           /\ last'.op = "resetRoot" => version' = version + 1 + opened
           /\ last'.op \notin {"endGroup", "clear", "resetRoot"} => version' = version + opened]_vars

\* An operation has run inside a group nested in another group, and the
\* version is one more than when the complex was built.
C4_OperationInNestedGroup ==
    /\ last.op \in {"createKeyVertex", "hardDelete"}
    /\ numOperationsInProgress = MaxDepth
    /\ version = FreshVersion + 1

\* ------------------------------------------------------------- hard delete

\* The ids hardDelete(n) is said to make unfindable: n, its descendants, and
\* the cells that were in the star of any of them before the call.
HardDeleteTargets(ns, n) ==
    LET own == {n} \cup Descendants(ns, n)
    IN  own \cup UNION {Range(ns[d].star) : d \in {x \in own : IsCell(ns[x])}}

\* C5, as stated: after hardDelete(n), find() returns null for the id of n, of
\* every descendant of n, and of every cell that was in the star of n or of a
\* descendant of n.
C5_NoneFindable ==
    LastWas("hardDelete") =>
        \A id \in HardDeleteTargets(last.pre, last.arg.node) : find(nodes, id) = NULL

\* C5, amended: the same for every id but that of the root group, which stays
\* findable when n is the root.
C5_NoneFindableButRoot ==
    LastWas("hardDelete") =>
        \A id \in HardDeleteTargets(last.pre, last.arg.node) \ {root} : find(nodes, id) = NULL

\* A node other than the root was hard-deleted, and cells of its star, outside
\* its descendants, went with it.
C5_DeletedWithStar ==
    /\ LastWas("hardDelete") /\ last.arg.node # root
    /\ HardDeleteTargets(last.pre, last.arg.node) # {last.arg.node} \cup Descendants(last.pre, last.arg.node)
    /\ \A id \in HardDeleteTargets(last.pre, last.arg.node) : find(nodes, id) = NULL

\* C6: hardDelete(node) deletes node unless node is the root group;
\* hardDelete(root) destroys every node below the root and keeps the root, a
\* group still found under its id.
C6_RootSurvivesHardDelete ==
    LastWas("hardDelete") =>
        IF last.arg.node = root
        THEN /\ find(nodes, root) = root
             /\ DOMAIN nodes = {root}
             /\ nodes[root].kind = last.pre[root].kind
             /\ nodes[root].children = <<>>
        ELSE find(nodes, last.arg.node) = NULL

\* The root of a complex with other nodes was hard-deleted.
C6_HardDeletedRoot ==
    /\ LastWas("hardDelete") /\ last.arg.node = root
    /\ Cardinality(DOMAIN last.pre) > 1

\* --------------------------------------------------- cut, then uncut at edge

\* The rotations of a cycle, as a set: two cycles are equal up to rotation
\* when they have the same rotations.
Rotations(cy) ==
    IF cy.halfedges = <<>> THEN {cy}
    ELSE {CycleOfHalfedges(SubSeq(cy.halfedges, k + 1, Len(cy.halfedges)) \o SubSeq(cy.halfedges, 1, k)) :
             k \in 0..(Len(cy.halfedges) - 1)}

\* The rotations of a cycle and of the cycle walked backwards.
RotationsAndReversals(cy) ==
    IF cy.halfedges = <<>> THEN {cy}
    ELSE Rotations(cy) \cup Rotations(CycleOfHalfedges(ReversedHalfedges(cy.halfedges)))

\* The cycle sequences cs1 and cs2 hold the same cycles, each as many times,
\* where two cycles are the same when Class gives them the same set.
SameCycles(cs1, cs2, Class(_)) ==
    /\ Len(cs1) = Len(cs2)
    /\ \A i \in 1..Len(cs1) :
          Cardinality({j \in 1..Len(cs1) : Class(cs1[j]) = Class(cs1[i])})
              = Cardinality({j \in 1..Len(cs2) : Class(cs2[j]) = Class(cs1[i])})

\* The last two operations were a cut of a face with an open edge and the
\* uncut at the edge the cut returned.
CutThenUncutAtEdge ==
    /\ prev.op \in {"cutFaceWithOpenEdge", "cutGlueFace"}
    /\ LastWas("uncutAtKeyEdge")
    /\ last.arg.ke = prev.res.edge
    /\ ~EdgeIsClosed(last.pre, last.arg.ke)

\* The cut joined usages of two different cycles of the face.
TwoCycleCut ==
    /\ CutThenUncutAtEdge
    /\ prev.op = "cutFaceWithOpenEdge"
    /\ prev.arg.startIndex[1] # prev.arg.endIndex[1]

\* The face is back with the cycles it had before the cut, compared by Class,
\* and the cut edge is gone from its boundary.
FaceRestored(Class(_)) ==
    /\ last.res.success
    /\ prev.arg.kf \in FacesOf(nodes)
    /\ SameCycles(prev.pre[prev.arg.kf].cycles, nodes[prev.arg.kf].cycles, Class)
    /\ ~Contains(nodes[prev.arg.kf].boundary, last.arg.ke)
    /\ find(nodes, last.arg.ke) = NULL

\* C7, as stated: a two-cycle cut under any policy, then uncutAtKeyEdge on the
\* new edge, succeeds and leaves the face with the cycles it had, each equal to
\* the original up to rotation, and without the edge in its boundary.
C7_TwoCycleCutUndone == TwoCycleCut => FaceRestored(Rotations)

\* C7, amended: the cycles come back up to rotation and reversal, and up to
\* rotation alone when the policy was ReverseNone.
C7_TwoCycleCutUndoneUpToReversal ==
    TwoCycleCut =>
        /\ FaceRestored(RotationsAndReversals)
        /\ prev.arg.twoCycleCutPolicy = ReverseNone => FaceRestored(Rotations)

\* A two-cycle cut that reversed the path of the start cycle was undone, and
\* that cycle is not its own reversal.
C7_ReversingCutUndone ==
    /\ TwoCycleCut
    /\ prev.arg.twoCycleCutPolicy = ReverseStart
    /\ LET cy == prev.pre[prev.arg.kf].cycles[prev.arg.startIndex[1] + 1]
       IN  cy.halfedges # <<>> /\ Rotations(cy) # RotationsAndReversals(cy)
    /\ FaceRestored(RotationsAndReversals)

\* The halfedges of the cyclic sequence hs from usage a up to usage b
\* (0-based), none when a = b.
Arc(hs, a, b) == [k \in 1..((b - a + Len(hs)) % Len(hs)) |-> hs[((a + k - 1) % Len(hs)) + 1]]

\* The face of the operation h had one cycle, a simple one, and h cut it with
\* the Disk policy between two distinct usages.
DiskCutOfSimpleCycle(h) ==
    /\ h.op = "cutFaceWithOpenEdge"
    /\ h.arg.oneCycleCutPolicy = Disk
    /\ h.arg.startIndex # h.arg.endIndex
    /\ Len(h.pre[h.arg.kf].cycles) = 1
    /\ LET hs == h.pre[h.arg.kf].cycles[1].halfedges
       IN  hs # <<>> /\ \A i, j \in 1..Len(hs) : i # j => HStart(h.pre, hs[i]) # HStart(h.pre, hs[j])

\* In ns, after the Disk cut h: the cut face is gone and the two faces
\* returned each have one cycle, a sub-path of the old cycle closed by the new
\* edge.
DiskCutShape(h, ns) ==
    LET hs == h.pre[h.arg.kf].cycles[1].halfedges
        s == h.arg.startIndex[2]
        e == h.arg.endIndex[2]
    IN  /\ find(ns, h.arg.kf) = NULL
        /\ h.res.face1 # h.res.face2
        /\ {h.res.face1, h.res.face2} \subseteq FacesOf(ns)
        /\ ns[h.res.face1].cycles = <<CycleOfHalfedges(Append(Arc(hs, e, s), Halfedge(h.res.edge, TRUE)))>>
        /\ ns[h.res.face2].cycles = <<CycleOfHalfedges(Append(Arc(hs, s, e), Halfedge(h.res.edge, FALSE)))>>

\* C8: a Disk cut of a face bounded by one simple cycle, between two distinct
\* usages, destroys the face and yields two faces each bounded by one sub-path
\* plus the new edge; uncutAtKeyEdge on the new edge then yields one face with
\* one cycle, the original cycle up to rotation.
C8_DiskCutUndone ==
    /\ DiskCutOfSimpleCycle(last) => DiskCutShape(last, nodes)
    /\ (CutThenUncutAtEdge /\ DiskCutOfSimpleCycle(prev)) =>
          /\ DiskCutShape(prev, last.pre)
          /\ last.res.success
          /\ last.res.resultKf \in FacesOf(nodes)
          /\ find(nodes, prev.res.face1) = NULL /\ find(nodes, prev.res.face2) = NULL
          /\ find(nodes, last.arg.ke) = NULL
          /\ Len(nodes[last.res.resultKf].cycles) = 1
          /\ nodes[last.res.resultKf].cycles[1] \in Rotations(prev.pre[prev.arg.kf].cycles[1])

\* The square face was cut across a diagonal with the Disk policy, and the
\* diagonal was then uncut.
C8_SquareDiagonalUndone ==
    /\ CutThenUncutAtEdge /\ DiskCutOfSimpleCycle(prev)
    /\ Len(prev.pre[prev.arg.kf].cycles[1].halfedges) = 4
    /\ Len(last.pre[prev.res.face1].cycles[1].halfedges) = 3
    /\ Len(last.pre[prev.res.face2].cycles[1].halfedges) = 3
    /\ last.res.success

\* The cut before the uncut joined two usages of one cycle of the face, with
\* the given policy.
OneCycleCutUndone(policy) ==
    /\ CutThenUncutAtEdge
    /\ prev.op = "cutFaceWithOpenEdge"
    /\ prev.arg.startIndex[1] = prev.arg.endIndex[1]
    /\ prev.arg.oneCycleCutPolicy = policy

\* The cycles of the cut face before the cut, with the cut cycle reversed.
CyclesWithCutCycleReversed ==
    [prev.pre[prev.arg.kf].cycles EXCEPT ![prev.arg.startIndex[1] + 1] = CycleReversed(@)]

\* C9, as stated: a one-cycle cut with policy Mobius, and likewise Torus, then
\* uncutAtKeyEdge on the new edge, brings every cycle back with the same
\* halfedges in the same orientation, up to rotation only.
C9_ExactLeftInverse ==
    (OneCycleCutUndone(Mobius) \/ OneCycleCutUndone(Torus)) => FaceRestored(Rotations)

\* C9, amended: that holds for Torus; after a Mobius cut the cut cycle comes
\* back reversed (up to rotation) and the other cycles as they were.
C9_LeftInverseUpToReversal ==
    /\ OneCycleCutUndone(Torus) => FaceRestored(Rotations)
    /\ OneCycleCutUndone(Mobius) =>
          /\ FaceRestored(RotationsAndReversals)
          /\ SameCycles(CyclesWithCutCycleReversed, nodes[prev.arg.kf].cycles, Rotations)

\* A Mobius cut of a cycle that is not its own reversal was undone.
C9_MobiusCutUndone ==
    /\ OneCycleCutUndone(Mobius)
    /\ LET cy == prev.pre[prev.arg.kf].cycles[prev.arg.startIndex[1] + 1]
       IN  Rotations(cy) # RotationsAndReversals(cy)
    /\ last.res.success

\* ------------------------------------------------ cut edge, then uncut at vertex

\* The last two operations were the cut of an open edge and the uncut at the
\* vertex the cut created.
CutEdgeThenUncutAtVertex ==
    /\ prev.op = "cutEdge"
    /\ ~EdgeIsClosed(prev.pre, prev.arg.ke)
    /\ LastWas("uncutAtKeyVertex")
    /\ last.arg.kv = prev.res.vertex

\* C10: cutEdge on an open edge e from A to B, then uncutAtKeyVertex on the
\* created vertex, succeeds and yields one open edge from A to B; every face
\* cycle is as before the cut with e replaced by the new edge in the same
\* direction; the two sub-edges and the cut vertex are gone.
C10_CutEdgeUndone ==
    CutEdgeThenUncutAtVertex =>
        /\ last.res.success
        /\ last.res.resultKe \in OpenEdgesOf(nodes)
        /\ nodes[last.res.resultKe].startVertex = prev.pre[prev.arg.ke].startVertex
        /\ nodes[last.res.resultKe].endVertex = prev.pre[prev.arg.ke].endVertex
        /\ FacesOf(nodes) = FacesOf(prev.pre)
        /\ \A f \in FacesOf(prev.pre) :
              nodes[f].cycles = [i \in 1..Len(prev.pre[f].cycles) |->
                                    CycleWithEdgeReplaced(prev.pre[f].cycles[i], prev.arg.ke, last.res.resultKe)]
        /\ \A id \in {prev.res.edge1, prev.res.edge2, prev.res.vertex} : find(nodes, id) = NULL

\* The cut edge was used backwards in a face cycle, and the cut was undone.
C10_CutEdgeOfFaceUndone ==
    /\ CutEdgeThenUncutAtVertex
    /\ last.res.success
    /\ \E f \in FacesOf(prev.pre) : \E i \in 1..Len(prev.pre[f].cycles) :
          Contains(prev.pre[f].cycles[i].halfedges, Halfedge(prev.arg.ke, FALSE))

\* ------------------------------------------------------- glue, then unglue

\* The last two operations were the glue of two open edges that shared no
\* vertex and the unglue of the edge the glue returned.
GlueThenUnglueEdge ==
    /\ prev.op = "glueKeyOpenEdges"
    /\ Len(prev.arg.kes) = 2
    /\ {prev.pre[prev.arg.kes[1]].startVertex, prev.pre[prev.arg.kes[1]].endVertex}
          \cap {prev.pre[prev.arg.kes[2]].startVertex, prev.pre[prev.arg.kes[2]].endVertex} = {}
    /\ LastWas("unglueKeyEdges")
    /\ last.arg.ke = prev.res.result

\* How many times the two glued edges were used by face cycles before the glue.
GluedUses ==
    Cardinality(EdgeSlots(prev.pre, prev.arg.kes[1])) + Cardinality(EdgeSlots(prev.pre, prev.arg.kes[2]))

\* C21, as stated: unglueKeyEdges on the edge returned by the glue of two
\* distinct open edges sharing no vertex yields two edges.
C21_UnglueYieldsTwoEdges ==
    GlueThenUnglueEdge =>
        /\ Len(last.res.result) = 2
        /\ Cardinality(Range(last.res.result)) = 2
        /\ Range(last.res.result) \subseteq EdgesOf(nodes)

\* C21, amended: it yields one edge per use of the two edges in face cycles,
\* two when each was used once, and the glued edge alone when there is at
\* most one use.
C21_UnglueYieldsOneEdgePerUse ==
    GlueThenUnglueEdge =>
        /\ Range(last.res.result) \subseteq EdgesOf(nodes)
        /\ Cardinality(Range(last.res.result)) = Len(last.res.result)
        /\ IF GluedUses <= 1
           THEN last.res.result = <<prev.res.result>>
           ELSE Len(last.res.result) = GluedUses /\ find(nodes, prev.res.result) = NULL

\* Two opposite sides of a face, each used once, were glued and unglued into
\* two edges.
C21_UngluedIntoTwo ==
    /\ GlueThenUnglueEdge
    /\ Cardinality(EdgeSlots(prev.pre, prev.arg.kes[1])) = 1
    /\ Cardinality(EdgeSlots(prev.pre, prev.arg.kes[2])) = 1
    /\ Len(last.res.result) = 2

\* ------------------------------------------------------------------ cut edge

\* The halfedge sequence hs with every use of e replaced in place by the two
\* sub-edges: (e1, e2) forwards, (e2, e1) backwards.
RECURSIVE WithEdgeSplit(_, _, _, _)
WithEdgeSplit(hs, e, e1, e2) ==
    IF hs = <<>> THEN <<>>
    ELSE (IF Head(hs).edge # e THEN <<Head(hs)>>
          ELSE IF Head(hs).direction THEN <<Halfedge(e1, TRUE), Halfedge(e2, TRUE)>>
          ELSE <<Halfedge(e2, FALSE), Halfedge(e1, FALSE)>>)
         \o WithEdgeSplit(Tail(hs), e, e1, e2)

\* The faces that used edge e in ns.
FacesUsing(ns, e) == {t[1] : t \in EdgeSlots(ns, e)}

\* C22: cutEdge on an open edge e from A to B destroys e and creates a vertex
\* v and two open edges e1 from A to v and e2 from v to B; in every face cycle
\* each use of e is replaced in place by (e1, e2) forwards or (e2, e1)
\* backwards, the other halfedges keep their order, and every face that used e
\* has e1, e2 and v in its boundary and no longer e.
C22_CutEdgeSplitsEveryUse ==
    (LastWas("cutEdge") /\ ~EdgeIsClosed(last.pre, last.arg.ke)) =>
        LET e == last.arg.ke
            e1 == last.res.edge1
            e2 == last.res.edge2
            v == last.res.vertex
        IN  /\ find(nodes, e) = NULL
            /\ DOMAIN nodes = ((DOMAIN last.pre) \ {e}) \cup {v, e1, e2}
            /\ {v, e1, e2} \cap DOMAIN last.pre = {}
            /\ v \in VerticesOf(nodes) /\ {e1, e2} \subseteq OpenEdgesOf(nodes) /\ e1 # e2
            /\ nodes[e1].startVertex = last.pre[e].startVertex /\ nodes[e1].endVertex = v
            /\ nodes[e2].startVertex = v /\ nodes[e2].endVertex = last.pre[e].endVertex
            /\ \A f \in FacesOf(last.pre) :
                  /\ f \in FacesOf(nodes)
                  /\ Len(nodes[f].cycles) = Len(last.pre[f].cycles)
                  /\ \A i \in 1..Len(nodes[f].cycles) :
                        /\ nodes[f].cycles[i].steinerVertex = last.pre[f].cycles[i].steinerVertex
                        /\ nodes[f].cycles[i].halfedges = WithEdgeSplit(last.pre[f].cycles[i].halfedges, e, e1, e2)
            /\ \A f \in FacesUsing(last.pre, e) :
                  /\ {e1, e2, v} \subseteq Range(nodes[f].boundary)
                  /\ e \notin Range(nodes[f].boundary)

\* An open edge used backwards by a face cycle was cut.
C22_CutEdgeUsedBackwards ==
    /\ LastWas("cutEdge") /\ ~EdgeIsClosed(last.pre, last.arg.ke)
    /\ \E t \in EdgeSlots(last.pre, last.arg.ke) : ~last.pre[t[1]].cycles[t[2]].halfedges[t[3]].direction
    /\ \E t \in EdgeSlots(nodes, last.res.edge2) : ~nodes[t[1]].cycles[t[2]].halfedges[t[3]].direction

\* ---------------------------------------------------------------- Torus cut

\* The last operation cut face kf with the Torus policy along a closed edge.
TorusCutWithClosedEdge ==
    \/ LastWas("cutFaceWithClosedEdge") /\ last.arg.oneCycleCutPolicy = Torus
    \/ /\ LastWas("cutGlueFace") /\ last.arg.oneCycleCutPolicy = Torus
       /\ EdgeIsClosed(last.pre, last.arg.ke)

\* The usages, in one cycle of the face, that the last operation joined with
\* an open edge under the Torus policy: <<start, end>>, or <<>> if it did not.
TorusCutUsages ==
    IF LastWas("cutFaceWithOpenEdge") /\ last.arg.oneCycleCutPolicy = Torus
          /\ last.arg.startIndex[1] = last.arg.endIndex[1]
    THEN <<last.arg.startIndex, last.arg.endIndex>>
    ELSE IF LastWas("cutGlueFace") /\ last.arg.oneCycleCutPolicy = Torus /\ ~EdgeIsClosed(last.pre, last.arg.ke)
    THEN LET s == FirstUsage(last.pre, last.arg.kf, last.pre[last.arg.ke].startVertex)
             e == FirstUsage(last.pre, last.arg.kf, last.pre[last.arg.ke].endVertex)
         IN  IF s[1] = e[1] THEN <<s, e>> ELSE <<>>
    ELSE <<>>

TorusCutWithOpenEdge == TorusCutUsages # <<>>

\* The halfedges of the cyclic sequence hs from usage a round to usage b: the
\* whole sequence, started at a, when a = b.
ArcOrLoop(hs, a, b) ==
    IF hs = <<>> THEN <<>>
    ELSE IF a = b THEN [k \in 1..Len(hs) |-> hs[((a + k - 1) % Len(hs)) + 1]]
    ELSE Arc(hs, a, b)

\* The face gained exactly the cycle through the edge forwards and the one
\* through it backwards, after the cycles it had.
GainedForwardAndReverseCycle ==
    /\ last.arg.kf \in FacesOf(nodes)
    /\ nodes[last.arg.kf].cycles =
          last.pre[last.arg.kf].cycles
             \o <<CycleOfHalfedges(<<Halfedge(last.res.edge, TRUE)>>),
                  CycleOfHalfedges(<<Halfedge(last.res.edge, FALSE)>>)>>

\* C23, as stated: a Torus cut, with an open edge or a closed edge, adds the
\* forward and the reverse cycle through the edge and leaves every cycle the
\* face had unchanged: two cycles gained, none lost.
C23_TorusAddsTwoCycles ==
    (TorusCutWithClosedEdge \/ TorusCutWithOpenEdge) =>
        /\ last.arg.kf \in FacesOf(nodes)
        /\ Len(nodes[last.arg.kf].cycles) = Len(last.pre[last.arg.kf].cycles) + 2
        /\ SubSeq(nodes[last.arg.kf].cycles, 1, Len(last.pre[last.arg.kf].cycles)) = last.pre[last.arg.kf].cycles
        /\ \A i \in (Len(last.pre[last.arg.kf].cycles) + 1)..Len(nodes[last.arg.kf].cycles) :
              \E h \in Range(nodes[last.arg.kf].cycles[i].halfedges) : h.edge = last.res.edge

\* C23, amended: that holds for the closed-edge variant; with an open edge the
\* cut cycle is replaced by its path from end to start closed by the edge
\* forwards, and the path from start to end closed by the edge backwards is
\* appended: one cycle gained, the other cycles unchanged.
C23_TorusSplitsTheCutCycle ==
    /\ TorusCutWithClosedEdge => GainedForwardAndReverseCycle
    /\ TorusCutWithOpenEdge =>
          LET old == last.pre[last.arg.kf].cycles
              ci == TorusCutUsages[1][1] + 1
              s == TorusCutUsages[1][2]
              e == TorusCutUsages[2][2]
              hs == old[ci].halfedges
          IN  /\ last.arg.kf \in FacesOf(nodes)
              /\ nodes[last.arg.kf].cycles =
                    Append([old EXCEPT ![ci] = CycleOfHalfedges(Append(ArcOrLoop(hs, e, s), Halfedge(last.res.edge, TRUE)))],
                           CycleOfHalfedges(Append(IF hs = <<>> THEN <<>> ELSE Arc(hs, s, e), Halfedge(last.res.edge, FALSE))))

\* A cycle of several halfedges was cut between two distinct usages with the
\* Torus policy, and is no longer a cycle of the face.
C23_TorusCutOfACycle ==
    /\ TorusCutWithOpenEdge
    /\ TorusCutUsages[1] # TorusCutUsages[2]
    /\ Len(nodes[last.arg.kf].cycles) = Len(last.pre[last.arg.kf].cycles) + 1
    /\ ~Contains(nodes[last.arg.kf].cycles, last.pre[last.arg.kf].cycles[TorusCutUsages[1][1] + 1])

\* ------------------------------------------------------------ the node map

\* The ids reached from the ids in S through child links.
RECURSIVE ReachedFrom(_, _)
ReachedFrom(ns, S) ==
    LET T == S \cup UNION {Range(ns[x].children) : x \in S \cap DOMAIN ns}
    IN  IF T = S THEN S ELSE ReachedFrom(ns, T)

\* C24: after any completed operation the node map holds exactly the root
\* group and the nodes reached from it through child links; it is empty only
\* after clear(), until the next resetRoot().
C24_MapIsTreeOfRoot ==
    IF DOMAIN nodes = {}
    THEN root = NULL
    ELSE root \in GroupsOf(nodes) /\ ReachedFrom(nodes, {root}) = DOMAIN nodes

\* The root of a complex with cells was soft-deleted: the map is empty, and
\* no clear() has run.
C24_SoftDeleteEmptiedTheMap ==
    /\ LastWas("softDelete") /\ Contains(last.arg.nodes, root)
    /\ Cardinality(DOMAIN last.pre) > 1
    /\ DOMAIN nodes = {}

\* C25: outside the execution of clear() the complex has exactly one root
\* group, registered in the node map: after construction, after clear()
\* returns, after resetRoot(), and after any hardDelete or softDelete, one
\* whose selection contains the root included.
C25_RootAlwaysRegistered ==
    /\ root # NULL
    /\ find(nodes, root) = root
    /\ {g \in GroupsOf(nodes) : nodes[g].parent = NULL} = {root}

\* A softDelete whose selection contained the root has run, and the root is
\* no longer found in the node map.
C25_RootGoneAfterSoftDelete ==
    /\ LastWas("softDelete") /\ Contains(last.arg.nodes, root)
    /\ ~last.res.threw
    /\ find(nodes, root) = NULL

\* ------------------------------------------------------ contract violations

\* The step was a call that the contract rejects: Operations on a null
\* complex, or a boundary call with a null bounded or bounding cell.
RejectedCall ==
    \/ last'.op = "Operations" /\ last'.arg.complexIsNull
    \/ /\ last'.op \in {"addToBoundary_", "removeFromBoundary_"}
       /\ last'.arg.boundedCell = NULL \/ last'.arg.boundingCell = NULL

\* C26: a rejected call throws and leaves the in-progress counter, the
\* version, the node map (every boundary and star with it) and the pending
\* diff as they were; calls with valid arguments do not throw.
C26_RejectedBeforeAnyChange ==
    [][/\ RejectedCall =>
             /\ last'.res.threw
             /\ UNCHANGED <<numOperationsInProgress, version, nodes, root, nextId, opDiff, temporaryCellSet, numEmitted>>
       /\ (last'.op \in {"Operations", "addToBoundary_", "removeFromBoundary_"} /\ ~RejectedCall) => ~last'.res.threw]_vars

\* A boundary call with a null bounding cell was rejected right after a call
\* that had changed a boundary, and that change is still there.
C26_RejectedAfterAChange ==
    /\ LastWas("addToBoundary_") /\ last.res.threw
    /\ last.arg.boundedCell # NULL /\ last.arg.boundingCell = NULL
    /\ prev.op = "addToBoundary_" /\ ~prev.res.threw
    /\ nodes = last.pre /\ nodes # prev.pre
    /\ numOperationsInProgress = 1

\* ------------------------------------------------------- add and remove

\* No boundary list and no star list holds a cell twice.
NoDuplicateEntries ==
    \A x \in DOMAIN nodes : IsCell(nodes[x]) =>
        /\ Cardinality(Range(nodes[x].boundary)) = Len(nodes[x].boundary)
        /\ Cardinality(Range(nodes[x].star)) = Len(nodes[x].star)

\* The step was an add of a cell already in the boundary, or a remove of a
\* cell not in it.
RedundantBoundaryCall ==
    /\ last'.op \in {"addToBoundary_", "removeFromBoundary_"} /\ ~last'.res.threw
    /\ (last'.op = "addToBoundary_") = Contains(nodes[last'.arg.boundedCell].boundary, last'.arg.boundingCell)

\* The last two calls were addToBoundary_(b, c) and removeFromBoundary_(b, c).
AddThenRemove ==
    /\ prev.op = "addToBoundary_" /\ ~prev.res.threw
    /\ LastWas("removeFromBoundary_") /\ last.arg = prev.arg

\* C29, as stated: no boundary or star list holds a duplicate; a second
\* identical add and a remove of an absent cell change nothing and record no
\* modification; add followed by remove restores the previous boundary of b
\* and star of c.
C29_AddRemoveInverse ==
    /\ []NoDuplicateEntries
    /\ [][RedundantBoundaryCall => UNCHANGED <<nodes, opDiff>>]_vars
    /\ [](AddThenRemove =>
             /\ nodes[last.arg.boundedCell].boundary = prev.pre[last.arg.boundedCell].boundary
             /\ nodes[last.arg.boundingCell].star = prev.pre[last.arg.boundingCell].star)

\* C29, amended: add followed by remove restores them when c was not in the
\* boundary of b before the add; when it was, the add changes nothing and the
\* remove takes c out of the boundary of b and b out of the star of c.
C29_AddRemoveInverseWhenAbsent ==
    /\ []NoDuplicateEntries
    /\ [][RedundantBoundaryCall => UNCHANGED <<nodes, opDiff>>]_vars
    /\ [](AddThenRemove =>
             LET b == last.arg.boundedCell
                 c == last.arg.boundingCell
             IN  IF Contains(prev.pre[b].boundary, c)
                 THEN /\ last.pre = prev.pre
                      /\ nodes[b].boundary = RemoveOne(prev.pre[b].boundary, c)
                      /\ nodes[c].star = RemoveOne(prev.pre[c].star, b)
                 ELSE /\ nodes[b].boundary = prev.pre[b].boundary
                      /\ nodes[c].star = prev.pre[c].star)

\* An edge that was not in the boundary of a face was added to it and removed
\* again.
C29_AddedThenRemoved ==
    /\ AddThenRemove
    /\ last.arg.boundedCell \in FacesOf(nodes) /\ last.arg.boundingCell \in EdgesOf(nodes)
    /\ ~Contains(prev.pre[last.arg.boundedCell].boundary, last.arg.boundingCell)
    /\ Contains(last.pre[last.arg.boundedCell].boundary, last.arg.boundingCell)
    /\ nodes = prev.pre

\* ------------------------------------------------------------ key edges

\* C30: every key edge is open with both end vertices non-null or closed with
\* both null, and its boundary is exactly the set of its start and end vertex:
\* two vertices, one for a loop, none for a closed edge.
C30_EdgeBoundaryIsItsEndVertices ==
    \A e \in EdgesOf(nodes) :
        /\ (nodes[e].startVertex = NULL) = (nodes[e].endVertex = NULL)
        /\ Range(nodes[e].boundary) = {nodes[e].startVertex, nodes[e].endVertex} \ {NULL}
        /\ Len(nodes[e].boundary) = Cardinality({nodes[e].startVertex, nodes[e].endVertex} \ {NULL})
        /\ Range(nodes[e].boundary) \subseteq VerticesOf(nodes)

\* Ungluing a vertex gave a loop edge two distinct end vertices.
C30_LoopOpenedByUnglue ==
    /\ LastWas("unglueKeyVertices")
    /\ \E e \in EdgesOf(nodes) \cap EdgesOf(last.pre) :
          /\ last.pre[e].startVertex = last.pre[e].endVertex
          /\ last.pre[e].startVertex # NULL
          /\ nodes[e].startVertex # nodes[e].endVertex
          /\ Len(nodes[e].boundary) = 2

\* ------------------------------------------------- unglue and temporal cells

HasTemporalStar(ns, x) == \E i \in 1..Len(ns[x].star) : ns[ns[x].star[i]].kind \in InbetweenKinds

\* The last operation was an unglue of a cell with an inbetween cell in its star.
UnglueOfTemporalStar ==
    \/ LastWas("unglueKeyEdges") /\ HasTemporalStar(last.pre, last.arg.ke)
    \/ LastWas("unglueKeyVertices") /\ HasTemporalStar(last.pre, last.arg.kv)

\* C27: unglueKeyEdges and unglueKeyVertices applied to a cell whose star
\* contains an inbetween cell raise no exception and leave the complex
\* unchanged.
C27_TemporalStarLeftUnchanged ==
    UnglueOfTemporalStar => (~last.res.threw /\ nodes = last.pre)

\* unglueKeyEdges of an edge used twice, with an inbetween edge at the end of
\* its star, left by a LogicError after the faces of the star were rewritten.
C27_ThrewAfterRewritingFaces ==
    /\ UnglueOfTemporalStar /\ LastWas("unglueKeyEdges")
    /\ last.res.threw
    /\ nodes # last.pre
    /\ last.arg.ke \in EdgesOf(nodes)
    /\ EdgesOf(nodes) # EdgesOf(last.pre)

\* ------------------------------------------- geometry at the end of a scope

Dimension(kind) ==
    IF kind \in {KeyVertexKind, InbetweenVertexKind} THEN 0
    ELSE IF kind \in {KeyEdgeKind, InbetweenEdgeKind} THEN 1 ELSE 2

\* The positions in steps at which the given step is taken on the cell.
StepsAt(steps, step, cell) == {i \in 1..Len(steps) : steps[i] = DtorStep(step, cell)}

\* The cells on which steps takes the given step, in the order taken.
CellsOfStep(steps, step) == SelectSeq(steps, LAMBDA st : st.step = step)

ReferencedBy(ns, cy) ==
    IF cy.steinerVertex # NULL THEN {cy.steinerVertex}
    ELSE IF ns[cy.halfedges[1].edge].startVertex = NULL THEN {cy.halfedges[1].edge}
    ELSE UNION {{cy.halfedges[i].edge,
                 IF cy.halfedges[i].direction THEN ns[cy.halfedges[i].edge].endVertex
                 ELSE ns[cy.halfedges[i].edge].startVertex} : i \in 1..Len(cy.halfedges)}

\* C31: the boundary of every key face is exactly the set of cells its cycles
\* reference: the Steiner vertex of a Steiner cycle, the edge of a closed-edge
\* cycle, every halfedge's edge and end vertex of any other cycle.
C31_FaceBoundaryIsWhatCyclesReference ==
    \A kf \in FacesOf(nodes) :
        Range(nodes[kf].boundary) = UNION {ReferencedBy(nodes, nodes[kf].cycles[i]) : i \in 1..Len(nodes[kf].cycles)}

\* uncutAtKeyEdge merged two faces into one whose boundary holds the cells of
\* both but the removed edge.
C31_FacesMergedByUncut ==
    /\ LastWas("uncutAtKeyEdge") /\ last.res.success
    /\ Cardinality(FacesOf(last.pre)) = Cardinality(FacesOf(nodes)) + 1
    /\ \E kf \in FacesOf(nodes) \ FacesOf(last.pre) :
          /\ nodes[kf].boundary # <<>>
          /\ ~Contains(nodes[kf].boundary, last.arg.ke)

\* ------------------------------------------------- what hardDelete destroys

VertexKinds == {KeyVertexKind, InbetweenVertexKind}

\* The cells in the boundary of a cell of gone that are not in gone.
BoundaryOf(ns, gone) == (UNION {Range(ns[d].boundary) : d \in {x \in gone : IsCell(ns[x])}}) \ gone

\* The vertices in the boundary of a cell of gone that lose their whole star
\* with gone.
IsolatedBy(ns, gone) ==
    {v \in BoundaryOf(ns, gone) : ns[v].kind \in VertexKinds /\ Range(ns[v].star) \subseteq gone}

\* The given node unless it is the root, its descendants, and the star of
\* those cells.
DeletedWithDependents(ns, n) ==
    LET own == ({n} \ {root}) \cup Descendants(ns, n)
    IN  own \cup UNION {Range(ns[d].star) : d \in {x \in own : IsCell(ns[x])}}

\* What hardDelete(n, deleteIsolatedVertices) is to destroy: with the flag,
\* also the vertices isolated by the deletion and the vertices isolated by the
\* deletion of those.
HardDeleteDestroys(ns, n, deleteIsolatedVertices) ==
    LET dep == DeletedWithDependents(ns, n)
        first == dep \cup IsolatedBy(ns, dep)
    IN  IF deleteIsolatedVertices THEN first \cup IsolatedBy(ns, first) ELSE dep

\* C32: hardDelete destroys exactly the given node (except the root), its
\* descendants and the star of those cells, and, when and only when
\* deleteIsolatedVertices is true, every vertex of the boundary of a destroyed
\* cell whose star becomes empty, also through the deletion of isolated
\* inbetween vertices; every surviving cell loses the destroyed cells from its
\* star and nothing else.
C32_HardDeleteDestroysExactly ==
    LastWas("hardDelete") =>
        LET gone == HardDeleteDestroys(last.pre, last.arg.node, last.arg.deleteIsolatedVertices)
        IN  /\ DOMAIN nodes = (DOMAIN last.pre) \ gone
            /\ \A x \in DOMAIN nodes : IsCell(nodes[x]) =>
                  nodes[x].star = SelectSeq(last.pre[x].star, LAMBDA s : s \notin gone)

\* hardDelete of an inbetween edge with deleteIsolatedVertices destroyed its
\* isolated inbetween vertex and, through it, a key vertex; another key vertex
\* of that inbetween vertex kept an edge in its star and survived.
C32_KeyVertexIsolatedThroughInbetween ==
    /\ LastWas("hardDelete") /\ last.arg.deleteIsolatedVertices
    /\ last.pre[last.arg.node].kind = InbetweenEdgeKind
    /\ \E iv \in (DOMAIN last.pre) \ DOMAIN nodes : \E kv \in (DOMAIN last.pre) \ DOMAIN nodes :
          /\ last.pre[iv].kind = InbetweenVertexKind /\ last.pre[kv].kind = KeyVertexKind
          /\ Contains(last.pre[iv].boundary, kv)
          /\ Range(last.pre[kv].star) = {iv, last.arg.node}
          /\ \E kv2 \in VerticesOf(nodes) : Contains(last.pre[iv].boundary, kv2) /\ nodes[kv2].star # <<>>

\* ------------------------------------------------------- after softDelete

\* The selected nodes and every descendant of a selected group.
SelectedWithDescendants(ns, nodeSeq) ==
    Range(nodeSeq) \cup UNION {Descendants(ns, g) : g \in {x \in Range(nodeSeq) : ns[x].kind = GroupKind}}

\* The closure of the opening of the selected cells, taken before the call.
ClosureOfOpening(ns, nodeSeq) ==
    LET cells == {x \in SelectedWithDescendants(ns, nodeSeq) : ns[x].kind # GroupKind}
        open == cells \cup UNION {Range(ns[x].star) : x \in cells}
    IN  open \cup UNION {Range(ns[x].boundary) : x \in open}

\* C33: after softDelete(nodes) no selected node and no descendant of a
\* selected group remains, every group it destroyed had no children when it
\* was destroyed (the assertion of destroyChildlessNode_ held), and no key
\* vertex with an empty star remains in the closure of the opening of the
\* selection.
C33_SelectionGoneGroupsChildless ==
    LastWas("softDelete") =>
        /\ ~last.res.threw
        /\ SelectedWithDescendants(last.pre, last.arg.nodes) \cap DOMAIN nodes = {}
        /\ \A kv \in ClosureOfOpening(last.pre, last.arg.nodes) \cap VerticesOf(nodes) : nodes[kv].star # <<>>

\* softDelete of a group that holds a group: the assertion of
\* destroyChildlessNode_ failed on the outer group, and both groups remain.
C33_OuterGroupDestroyedFirst ==
    /\ LastWas("softDelete") /\ last.res.threw
    /\ \E g \in Range(last.arg.nodes) \cap GroupsOf(nodes) : \E h \in GroupsOf(nodes) :
          /\ g # root
          /\ Contains(nodes[g].children, h)

\* ------------------------------------------------------------------ C34

SimplifyReturned == LastWas("simplify") /\ ~last.res.crashed

AttemptedCells == [i \in 1..Len(last.res.attempts) |-> last.res.attempts[i].cell]

FailedInputs == {a.cell : a \in {b \in Range(last.res.attempts) : ~b.success}}

\* The input vertices whose uncut failed and the input edges whose uncut
\* failed and that still exist.
NotSimplifiedAway ==
    {x \in FailedInputs : x \in Range(last.arg.kvs) \/ (x \in Range(last.arg.kes) /\ x \in DOMAIN nodes)}

\* The key edges that the uncuts of the batch created and that still exist.
EdgesMadeBySimplify == {x \in EdgesOf(nodes) : x \notin DOMAIN last.pre}

\* C34 as stated: simplify attempts an uncut on every input edge, then on
\* every input vertex, and returns exactly the input vertices whose uncut
\* failed and the input edges whose uncut failed and that still exist.
C34_ReturnsExactlyFailedInputs ==
    SimplifyReturned =>
        /\ AttemptedCells = last.arg.kes \o last.arg.kvs
        /\ Range(last.res.result) = NotSimplifiedAway

\* C34, amended: simplify attempts an uncut on every input edge, then on
\* every input vertex, and returns the input vertices whose uncut failed,
\* the input edges whose uncut failed and that still exist, and the edges
\* that the successful vertex uncuts produced and that still exist.
C34_ReturnsFailedInputsAndMergedEdges ==
    SimplifyReturned =>
        /\ AttemptedCells = last.arg.kes \o last.arg.kvs
        /\ Range(last.res.result) = NotSimplifiedAway \cup EdgesMadeBySimplify

\* A batch in which one uncut failed and a vertex uncut produced an edge.
C34_FailedAndMerged ==
    /\ SimplifyReturned
    /\ NotSimplifiedAway # {}
    /\ EdgesMadeBySimplify # {}
    /\ \E a \in Range(last.res.attempts) : a.success

\* ------------------------------------------------------------------ C35

\* The input vertices of the last simplify that were Steiner vertices of a
\* face and had no incident edge when simplify was called.
SteinerInputs ==
    {kv \in Range(last.arg.kvs) :
        LET st == Range(last.pre[kv].star)
        IN  st # {} /\ \A x \in st : last.pre[x].kind = KeyFaceKind}

\* C35: simplify reads no null result and returns normally for every input;
\* an input vertex that is uncut through the Steiner pattern is destroyed
\* and its Steiner cycle is removed.
C35_SimplifyNeverReadsNull ==
    LastWas("simplify") =>
        /\ ~last.res.derefNull
        /\ ~last.res.crashed
        /\ \A kv \in SteinerInputs : kv \notin DOMAIN nodes

\* simplify uncut a Steiner vertex of a face and then read the id of the
\* resulting edge, which is null.
C35_SteinerUncutThenNullRead ==
    /\ LastWas("simplify")
    /\ SteinerInputs # {}
    /\ \A kv \in SteinerInputs : kv \notin DOMAIN nodes
    /\ last.res.derefNull

\* ------------------------------------------------------------------ C36

Observed == last.op \in {"observedCreateKeyVertex", "observedHardDelete", "observedEndGroup"}

\* The diffs delivered by the last operation.
Emitted == IF Observed THEN last.res.emitted ELSE <<>>

\* In how many of the delivered diffs each kind of node change appears.
TimesCreated(x) == Cardinality({i \in 1..Len(Emitted) : x \in Emitted[i].created})

TimesDestroyed(x) == Cardinality({i \in 1..Len(Emitted) : x \in Range(Emitted[i].destroyed)})

TimesInserted(x) == Cardinality({i \in 1..Len(Emitted) : x \in Emitted[i].inserted})

TimesModified(x) == Cardinality({i \in 1..Len(Emitted) : x \in Emitted[i].modified})

\* Every change of the delivered diffs is in exactly one of them, and the
\* nodes that the operation created or destroyed are among these changes.
DeliveredExactlyOnce ==
    /\ \A i \in 1..Len(Emitted) :
          /\ \A x \in Emitted[i].created : TimesCreated(x) = 1
          /\ \A x \in Range(Emitted[i].destroyed) : TimesDestroyed(x) = 1
          /\ \A x \in Emitted[i].inserted : TimesInserted(x) = 1
          /\ \A x \in Emitted[i].modified : TimesModified(x) = 1
    /\ Emitted # <<>> =>
          /\ \A x \in (DOMAIN nodes) \ (DOMAIN last.pre) : TimesCreated(x) = 1
          /\ \A x \in (DOMAIN last.pre) \ (DOMAIN nodes) : TimesDestroyed(x) = 1

NoPendingDiffOutsideScopes == numOperationsInProgress = 0 => opDiff = EmptyDiff

\* The listener opened a scope of its own while the diff was delivered to it.
ListenerOpenedScope == Observed /\ Emitted # <<>> /\ last.arg.listener # "none"

\* C36 as stated: every node change is delivered in exactly one emitted
\* diff and no diff is pending while no scope is open, also when a listener
\* opens a scope on the same complex during the emission.
C36_EveryChangeDeliveredOnce ==
    /\ NoPendingDiffOutsideScopes
    /\ Observed => DeliveredExactlyOnce

\* C36, amended: every node change is delivered in exactly one emitted diff
\* unless a listener opens a scope on the same complex during the emission;
\* the scope of such a listener emits the diff being delivered once more,
\* together with its own changes.  No diff is pending while no scope is open.
C36_DeliveredOnceUnlessListenerOpensScope ==
    /\ NoPendingDiffOutsideScopes
    /\ Observed /\ ~ListenerOpenedScope => DeliveredExactlyOnce /\ Len(Emitted) <= 1
    /\ ListenerOpenedScope =>
          /\ Len(Emitted) = 2
          /\ Emitted[1] = last.res.pending
          /\ Emitted[1].created \subseteq Emitted[2].created
          /\ Range(Emitted[1].destroyed) \subseteq Range(Emitted[2].destroyed)
          /\ Emitted[1].inserted \subseteq Emitted[2].inserted
          /\ Emitted[1].modified \subseteq Emitted[2].modified

\* A group of two operations ended, one diff with the changes of both was
\* delivered, and the listener opened no scope.
C36_GroupDeliveredInOneDiff ==
    /\ last.op = "observedEndGroup" /\ ~ListenerOpenedScope
    /\ Len(Emitted) = 1
    /\ Cardinality(Emitted[1].created) + Len(Emitted[1].destroyed) >= 2
    /\ DeliveredExactlyOnce

\* A listener created a group while a diff with a created node was delivered.
C36_CreationDeliveredTwice ==
    /\ ListenerOpenedScope /\ last.arg.listener = "createGroup"
    /\ \E x \in Emitted[1].created : TimesCreated(x) = 2

\* ------------------------------------------------------------------ C37

\* The ids that the diff of the last softDelete reports destroyed twice.
DestroyedTwice ==
    {x \in Range(last.res.destroyed) :
        Cardinality({i \in 1..Len(last.res.destroyed) : last.res.destroyed[i] = x}) > 1}

\* C37: every cell that the residual pass of softDelete examines is alive
\* in the complex, and the diff reports no node id destroyed twice.
C37_ResidualPassReadsLiveCellsOnly ==
    LastWas("softDelete") =>
        /\ last.res.danglingReads = {}
        /\ DestroyedTwice = {}

\* softDelete destroyed a selected vertex through destroyNodes_, its residual
\* pass read the destroyed vertex and reported it destroyed a second time.
C37_VertexDestroyedTwice ==
    /\ LastWas("softDelete") /\ ~last.res.threw
    /\ \E kv \in DestroyedTwice :
          /\ kv \in last.res.danglingReads
          /\ kv \in Range(last.arg.nodes)
          /\ last.pre[kv].kind = KeyVertexKind

\* ------------------------------------------------------------------ C38

\* The vertex or the edges that the cycle cy names, and the end vertices
\* of those of its edges that are in the complex.
NamedByCycle(ns, cy) ==
    LET edges == {cy.halfedges[i].edge : i \in 1..Len(cy.halfedges)}
    IN  ({cy.steinerVertex} \ {NULL}) \cup edges
            \cup UNION {{ns[e].startVertex, ns[e].endVertex} \ {NULL} : e \in edges \cap DOMAIN ns}

\* The nodes that cell x refers to: boundary, star, end vertices, and the
\* vertices and edges of its cycles.
ReferencesOf(ns, x) ==
    Range(ns[x].boundary) \cup Range(ns[x].star)
        \cup ({ns[x].startVertex, ns[x].endVertex} \ {NULL})
        \cup UNION {NamedByCycle(ns, ns[x].cycles[i]) : i \in 1..Len(ns[x].cycles)}

\* C38: after any completed operation, every node that a live cell refers
\* to (boundary, star, end vertices, face cycles) is in the complex.
C38_NoReferenceToDestroyedNode ==
    \A x \in DOMAIN nodes : IsCell(nodes[x]) => ReferencesOf(nodes, x) \subseteq DOMAIN nodes

\* A hard delete destroyed nodes that a cell still in the complex referred
\* to before the operation.
C38_SurvivorReferredToDestroyed ==
    /\ LastWas("hardDelete")
    /\ \E x \in DOMAIN nodes :
          /\ IsCell(nodes[x])
          /\ ~(ReferencesOf(last.pre, x) \subseteq DOMAIN nodes)

\* ------------------------------------------------------------------ C39

\* The edges returned by the last unglueKeyEdges that face cycles use more
\* than once.
ReturnedEdgesUsedTwice ==
    {e \in Range(last.res.result) : countUsesOfKeyEdge_(nodes, e) > 1}

\* C39: after unglueKeyEdges(ke), every returned edge is used at most once
\* over all face cycles, whether ke is open or closed and however often one
\* cycle traverses a closed ke.
C39_ReturnedEdgesUsedAtMostOnce ==
    LastWas("unglueKeyEdges") /\ ~last.res.threw => ReturnedEdgesUsedTwice = {}

\* unglueKeyEdges was applied to a closed edge that one cycle traversed
\* twice, and returned a duplicate that the cycle traverses twice.
C39_ClosedEdgeDuplicateUsedTwice ==
    /\ LastWas("unglueKeyEdges") /\ ~last.res.threw
    /\ EdgeIsClosed(last.pre, last.arg.ke)
    /\ last.arg.ke \notin DOMAIN nodes
    /\ ReturnedEdgesUsedTwice # {}

\* ------------------------------------------------------------------ C40

NodeIds == 1..MaxId

\* C40: clear() emits one diff, which reports every node that was in the
\* complex destroyed exactly once; during its delivery find() returns null
\* for every id; a resetRoot() made by a listener during the delivery
\* returns null, creates no root, changes no node and starts no other clear.
C40_ClearReportsAllAndResetRootIsIgnored ==
    LastWas("observedClear") =>
        /\ Len(last.res.emitted) = 1
        /\ Range(last.res.emitted[1].destroyed) = DOMAIN last.pre
        /\ Len(last.res.emitted[1].destroyed) = Cardinality(DOMAIN last.pre)
        /\ last.res.emitted[1].created = {}
        /\ \A i \in 1..Len(last.res.seen) : \A id \in NodeIds : find(last.res.seen[i], id) = NULL
        /\ \A i \in 1..Len(last.res.resetRootResults) : last.res.resetRootResults[i] = NULL
        /\ nodes = <<>> /\ root = NULL
        /\ last.res.numCreated = 0

\* A complex with several nodes was cleared and the listener called
\* resetRoot() while the diff was delivered.
C40_ResetRootCalledDuringClear ==
    /\ LastWas("observedClear")
    /\ last.arg.listener = "resetRoot"
    /\ Len(last.res.resetRootResults) = 1
    /\ Cardinality(DOMAIN last.pre) >= 2

====
